---- MODULE Spec2Model ----
(***************************************************************************)
(* Verification model of suilz/ffcgi-client (a FastCGI client in Go).      *)
(*                                                                         *)
(*  - the client pool            (pool.go)                                 *)
(*  - the request-id pool        (idPool, newIDPool)                       *)
(*  - one request on one client  (client.Do, writeRequest, readResponse,   *)
(*                                ResponsePipe)                            *)
(*  - one HTTP request           (Handler.ServeHTTP, writeResponse)        *)
(*  - the record and size codec  (writeRecord, encodeSize, readSize)       *)
(*                                                                         *)
(* Each part has its own specification over the shared variable list; the  *)
(* variables of the other parts stay at their initial values.              *)
(***************************************************************************)
EXTENDS Integers, Sequences, FiniteSets, Bags, TLC

(***************************************************************************)
(* Bounds of the model.                                                    *)
(***************************************************************************)
\* scale argument of NewClientPool: capacity of the stock and slot channels
Scale == 2
\* expires argument of NewClientPool, in clock ticks
Expires == 1
\* the clock stops ticking here
MaxTime == 2
\* number of PoolClients the stocker builds before the model stops it
MaxPC == 3
\* number of concurrent consumers of the pool
NumCallers == 2
\* largest value of the id type in the concurrent id-pool specification
\* (it stands for 65535 there; the initializer alone is checked at 65535)
IdTopSmall == 3
\* number of Alloc calls the concurrent id-pool specification follows
MaxAllocs == 7
\* number of concurrent users of one idPool
NumIdCallers == 4

\* number of records the upstream sends in answer to one request
MaxRecs == 2
\* number of lines of a CGI response given to writeResponse
MaxLines == 4
\* number of bytes a short read of req.Stdin returns
ShortRead == 1000
\* number of records Client.Request reads at most
MaxInRecs == 3

\* largest value of uint16, the type of a request id
Uint16Max == 65535
\* maxWrite: largest record body, and size of the stream writer's buffer
maxWrite == 65535
\* size of the buffer writeRequest reads req.Stdin into
StdinChunk == 1024
\* size of the body of a BeginRequest record
BeginBodyLen == 8
\* lengths up to this one are encoded in one byte by encodeSize
ShortSizeMax == 127
\* maxPad: size of the padding array
maxPad == 255
\* records are padded to a multiple of this (the mask 7 of header.init, plus 1)
PadAlign == 8
\* size of an encoded header: 1 + 1 + 2 + 2 + 1 + 1 bytes
HeaderLen == 8
\* 1 << 7: the flag bit of the first byte of an encoded length
FlagBit == 128
\* number of values of a byte
ByteMod == 256
\* largest length that leaves bit 31 free: 2^31 - 1
MaxSize == 2147483647

VARIABLES
    \* ---- client pool (pool.go) ----
    now,        \* time.Now(), in ticks
    pool,       \* chan *PoolClient (stock), FIFO of PoolClient ids
    poolTag,    \* chan uint (slot tokens)
    nextPC,     \* number of PoolClients built so far
    spc,        \* stocker: position in its loop
    sClient,    \* stocker: the PoolClient it built and has not pushed yet
    pcExpires,  \* PoolClient.expires
    pcErr,      \* PoolClient.Err: "none", "err" (an error and a Client), "nil"
                \* (an error and a nil Client)
    pcConn,     \* client.conn != nil of the wrapped client
    pcCloses,   \* number of calls of the wrapped Client.Close
    rt,         \* return task of each PoolClient: position
    cpc,        \* consumer: position
    cClient,    \* consumer: the PoolClient it took
    cDial,      \* consumer: outcome of the pc.NewConn() of its CreateClient
    \* ---- request-id pool (idPool) ----
    idTop,      \* largest value of the id type
    idLimit,    \* argument of newIDPool
    idMaxID,    \* initializer: maxID
    idI,        \* initializer: loop counter i
    idInitDone, \* initializer: the loop has ended
    idCount,    \* number of ids the initializer has sent
    idRel,      \* ids held by the goroutines of Release, blocked on p.IDs <- id
    idHeld,     \* id each user got from Alloc and has not released (NoID: none)
    idAllocs,   \* number of Alloc calls so far
    \* ---- one request: client.Do and ResponsePipe.WriteTo ----
    req,        \* the Request: [pairs, stdin] and whether c.conn is nil
    dpc,        \* client.Do: position
    w,          \* writer task (writeRequest): position, stream writer, error
    wire,       \* records the connection has accepted, in order
    wlog,       \* what happened on the write side: failed writes, abort attempts
    ctx,        \* context: cancelled, and whether that was in mid-request
    rl,         \* read loop goroutine of readResponse: position, the stdout
                \* lines (msg) or stderr bytes (text) it is handing over, the
                \* number of records and of Stderr records it has read
    rdpc,       \* reader task: position
    wg,         \* sync.WaitGroup counter, and whether allDone is closed
    sup,        \* supervisor goroutine: position and the error it carries
    pipes,      \* ResponsePipe: which writer ends are closed
    oc,         \* writeResponse (consumer of stdout)
    ec,         \* writeError (consumer of stderr): position and bytes copied
    \* ---- one HTTP request: Handler.ServeHTTP ----
    hpc,        \* ServeHTTP: position
    stdoutIn,   \* lines of the CGI response the upstream sends on stdout
    \* ---- record and size encoding (client_test.go) ----
    fnArg,      \* argument of the function applied
    fnRes       \* its result

poolVars == <<now, pool, poolTag, nextPC, spc, sClient, pcExpires, pcErr, pcConn,
              pcCloses, rt, cpc, cClient, cDial>>

idVars == <<idTop, idLimit, idMaxID, idI, idInitDone, idCount, idRel, idHeld, idAllocs>>

doVars == <<req, dpc, w, wire, wlog, ctx, rl, rdpc, wg, sup, pipes, oc, ec>>

serveVars == <<hpc, stdoutIn>>

codecVars == <<fnArg, fnRes>>

vars == <<poolVars, idVars, doVars, serveVars, codecVars>>

PCs == 1..MaxPC
Callers == 1..NumCallers
NoPC == 0
IdCallers == 1..NumIdCallers
NoID == -1

(***************************************************************************)
(* Client pool                                                             *)
(***************************************************************************)

\* make(chan *PoolClient, scale), make(chan uint, scale)
PoolCap == Scale
PoolTagCap == Scale

\* variant of Expired: Before in place of After
Expired_Before(p) == now < pcExpires[p]

\* PoolClient.Expired: time.Now().After(pc.expires)
Expired(p) == now > pcExpires[p]

InitPool ==
    /\ now = 0
    /\ pool = <<>>
    /\ poolTag = <<>>
    /\ nextPC = 0
    /\ spc = "tag"
    /\ sClient = NoPC
    /\ pcExpires = [p \in PCs |-> 0]
    /\ pcErr = [p \in PCs |-> "none"]
    /\ pcConn = [p \in PCs |-> FALSE]
    /\ pcCloses = [p \in PCs |-> 0]
    /\ rt = [p \in PCs |-> "none"]
    /\ cpc = [c \in Callers |-> "idle"]
    /\ cClient = [c \in Callers |-> NoPC]
    /\ cDial = [c \in Callers |-> "none"]

\* the wall clock advances
Tick ==
    /\ now < MaxTime
    /\ now' = now + 1
    /\ UNCHANGED <<pool, poolTag, nextPC, spc, sClient, pcExpires, pcErr, pcConn,
                   pcCloses, rt, cpc, cClient, cDial>>

\* variant of StockerTag: the token is sent without waiting for a free slot
StockerTag_NoWait ==
    /\ spc = "tag"
    /\ nextPC < MaxPC
    /\ poolTag' = IF Len(poolTag) < PoolTagCap THEN Append(poolTag, 1) ELSE poolTag
    /\ spc' = "factory"
    /\ UNCHANGED <<now, pool, nextPC, sClient, pcExpires, pcErr, pcConn, pcCloses,
                   rt, cpc, cClient, cDial>>

\* stocker: poolTag <- 1
StockerTag ==
    /\ spc = "tag"
    /\ nextPC < MaxPC
    /\ Len(poolTag) < PoolTagCap
    /\ poolTag' = Append(poolTag, 1)
    /\ spc' = "factory"
    /\ UNCHANGED <<now, pool, nextPC, sClient, pcExpires, pcErr, pcConn, pcCloses,
                   rt, cpc, cClient, cDial>>

\* what a ClientFactory returns: a client with a connection
\* (SimpleClientFactory), a client without one (SimpleClientFactoryNoConn),
\* no client and the dial error (SimpleClientFactory), a client and an error
FactoryOutcomes == {"conn", "noconn", "nil", "err"}

\* stocker: c, err := clientFactory(); pc := &PoolClient{...}
StockerFactory ==
    /\ spc = "factory"
    /\ \E out \in FactoryOutcomes :
         /\ nextPC' = nextPC + 1
         /\ sClient' = nextPC + 1
         /\ pcErr' = [pcErr EXCEPT ![nextPC + 1] =
                         IF out \in {"nil", "err"} THEN out ELSE "none"]
         /\ pcConn' = [pcConn EXCEPT ![nextPC + 1] = (out = "conn")]
         /\ pcExpires' = [pcExpires EXCEPT ![nextPC + 1] = now + Expires]
    /\ spc' = "push"
    /\ UNCHANGED <<now, pool, poolTag, pcCloses, rt, cpc, cClient, cDial>>

\* stocker: pool <- pc
StockerPush ==
    /\ spc = "push"
    /\ Len(pool) < PoolCap
    /\ pool' = Append(pool, sClient)
    /\ sClient' = NoPC
    /\ spc' = "tag"
    /\ UNCHANGED <<now, poolTag, nextPC, pcExpires, pcErr, pcConn, pcCloses, rt,
                   cpc, cClient, cDial>>

\* variant: CreateClient reads the head of the stock and leaves it there
CreateTake_Peek(c) ==
    /\ cpc[c] \in {"idle", "error"}
    /\ Len(pool) > 0
    /\ cClient' = [cClient EXCEPT ![c] = Head(pool)]
    /\ cDial' = [cDial EXCEPT ![c] = "none"]
    /\ pool' = pool
    /\ cpc' = [cpc EXCEPT ![c] = "newconn"]
    /\ UNCHANGED <<now, poolTag, nextPC, spc, sClient, pcExpires, pcErr, pcConn,
                   pcCloses, rt>>

\* CreateClient: pc := <-p.pool
CreateTake(c) ==
    /\ cpc[c] \in {"idle", "error"}
    /\ Len(pool) > 0
    /\ cClient' = [cClient EXCEPT ![c] = Head(pool)]
    /\ cDial' = [cDial EXCEPT ![c] = "none"]
    /\ pool' = Tail(pool)
    /\ cpc' = [cpc EXCEPT ![c] = "newconn"]
    /\ UNCHANGED <<now, poolTag, nextPC, spc, sClient, pcExpires, pcErr, pcConn,
                   pcCloses, rt>>

\* CreateClient: pc.NewConn(). The result is dropped. With a nil Client
\* (the factory failed) the call is a nil dereference and the caller panics.
\* client.NewConn sets c.conn only when the dial succeeds.
CreateNewConn(c) ==
    /\ cpc[c] = "newconn"
    /\ IF pcErr[cClient[c]] = "nil"
       THEN /\ cpc' = [cpc EXCEPT ![c] = "panic"]
            /\ UNCHANGED <<pcConn, cDial>>
       ELSE /\ cpc' = [cpc EXCEPT ![c] = "untag"]
            /\ \E dialed \in BOOLEAN :
                 /\ pcConn' = [pcConn EXCEPT ![cClient[c]] = IF dialed THEN TRUE ELSE @]
                 /\ cDial' = [cDial EXCEPT ![c] = IF dialed THEN "ok" ELSE "failed"]
    /\ UNCHANGED <<now, pool, poolTag, nextPC, spc, sClient, pcExpires, pcErr,
                   pcCloses, rt, cClient>>

\* variant: CreateClient returns without receiving from poolTag
CreateUntag_NoDrain(c) ==
    /\ cpc[c] = "untag"
    /\ cpc' = [cpc EXCEPT ![c] = IF pcErr[cClient[c]] # "none" THEN "error" ELSE "holding"]
    /\ UNCHANGED <<now, pool, poolTag, nextPC, spc, sClient, pcExpires, pcErr, pcConn,
                   pcCloses, rt, cClient, cDial>>

\* CreateClient: <-p.poolTag, then return pc, or nil and pc.Err
CreateUntag(c) ==
    /\ cpc[c] = "untag"
    /\ Len(poolTag) > 0
    /\ poolTag' = Tail(poolTag)
    /\ cpc' = [cpc EXCEPT ![c] = IF pcErr[cClient[c]] # "none" THEN "error" ELSE "holding"]
    /\ UNCHANGED <<now, pool, nextPC, spc, sClient, pcExpires, pcErr, pcConn,
                   pcCloses, rt, cClient, cDial>>

\* PoolClient.Close by the consumer that holds it
PoolClientClose(c) ==
    /\ cpc[c] = "holding"
    /\ IF Expired(cClient[c])
       THEN \* return pc.Client.Close()  (client.Close -> CloseConn)
            /\ pcCloses' = [pcCloses EXCEPT ![cClient[c]] = @ + 1]
            /\ pcConn' = [pcConn EXCEPT ![cClient[c]] = FALSE]
            /\ UNCHANGED rt
       ELSE \* go func() { ... }()
            /\ rt' = [rt EXCEPT ![cClient[c]] = "closeconn"]
            /\ UNCHANGED <<pcCloses, pcConn>>
    /\ cpc' = [cpc EXCEPT ![c] = "idle"]
    /\ cClient' = [cClient EXCEPT ![c] = NoPC]
    /\ UNCHANGED <<now, pool, poolTag, nextPC, spc, sClient, pcExpires, pcErr, cDial>>

\* the variant: the return task leaves the connection open
ReturnCloseConn_Keep(p) ==
    /\ rt[p] = "closeconn"
    /\ rt' = [rt EXCEPT ![p] = "tag"]
    /\ UNCHANGED <<now, pool, poolTag, nextPC, spc, sClient, pcExpires, pcErr,
                   pcConn, pcCloses, cpc, cClient, cDial>>

\* return task: pc.CloseConn()
ReturnCloseConn(p) ==
    /\ rt[p] = "closeconn"
    /\ pcConn' = [pcConn EXCEPT ![p] = FALSE]
    /\ rt' = [rt EXCEPT ![p] = "tag"]
    /\ UNCHANGED <<now, pool, poolTag, nextPC, spc, sClient, pcExpires, pcErr,
                   pcCloses, cpc, cClient, cDial>>

\* return task: pc.poolTag <- 1
ReturnTag(p) ==
    /\ rt[p] = "tag"
    /\ Len(poolTag) < PoolTagCap
    /\ poolTag' = Append(poolTag, 1)
    /\ rt' = [rt EXCEPT ![p] = "push"]
    /\ UNCHANGED <<now, pool, nextPC, spc, sClient, pcExpires, pcErr, pcConn,
                   pcCloses, cpc, cClient, cDial>>

\* return task: pc.pool <- pc
ReturnPush(p) ==
    /\ rt[p] = "push"
    /\ Len(pool) < PoolCap
    /\ pool' = Append(pool, p)
    /\ rt' = [rt EXCEPT ![p] = "none"]
    /\ UNCHANGED <<now, poolTag, nextPC, spc, sClient, pcExpires, pcErr, pcConn,
                   pcCloses, cpc, cClient, cDial>>

NextPool ==
    \/ (Tick /\ UNCHANGED <<idVars, doVars, serveVars, codecVars>>)
    \/ (StockerTag /\ UNCHANGED <<idVars, doVars, serveVars, codecVars>>)
    \/ (StockerFactory /\ UNCHANGED <<idVars, doVars, serveVars, codecVars>>)
    \/ (StockerPush /\ UNCHANGED <<idVars, doVars, serveVars, codecVars>>)
    \/ \E c \in Callers : (CreateTake(c) /\ UNCHANGED <<idVars, doVars, serveVars, codecVars>>)
    \/ \E c \in Callers : (CreateNewConn(c) /\ UNCHANGED <<idVars, doVars, serveVars, codecVars>>)
    \/ \E c \in Callers : (CreateUntag(c) /\ UNCHANGED <<idVars, doVars, serveVars, codecVars>>)
    \/ \E c \in Callers : (PoolClientClose(c) /\ UNCHANGED <<idVars, doVars, serveVars, codecVars>>)
    \/ \E p \in PCs : (ReturnCloseConn(p) /\ UNCHANGED <<idVars, doVars, serveVars, codecVars>>)
    \/ \E p \in PCs : (ReturnTag(p) /\ UNCHANGED <<idVars, doVars, serveVars, codecVars>>)
    \/ \E p \in PCs : (ReturnPush(p) /\ UNCHANGED <<idVars, doVars, serveVars, codecVars>>)

(***************************************************************************)
(* Request-id pool                                                         *)
(***************************************************************************)

\* newIDPool: if limit == 0 || limit > 65535 { limit = 65535 }
\* top is the largest value of the id type (65535 for uint16)
LimitOf(limit, top) == IF limit = 0 \/ limit > top THEN top ELSE limit

\* i++ on the id type
IdIncr(i, top) == (i + 1) % (top + 1)

\* loop condition of the initializer: i <= maxID
IdLoopCond(i, maxID) == i <= maxID

\* state of a pool built by newIDPool(limit) on an id type with largest value top
IdPoolNew(limit, top) ==
    /\ idTop = top
    /\ idLimit = limit
    /\ idMaxID = LimitOf(limit, top)
    /\ idI = 1
    /\ idInitDone = FALSE
    /\ idCount = 0
    /\ idRel = EmptyBag
    /\ idHeld = [c \in IdCallers |-> NoID]
    /\ idAllocs = 0

\* the id pools of the other specifications are not used
IdPoolIdle == IdPoolNew(1, 1)

\* the initializer leaves its loop
IdInitExit ==
    /\ ~idInitDone
    /\ ~IdLoopCond(idI, idMaxID)
    /\ idInitDone' = TRUE
    /\ UNCHANGED <<idTop, idLimit, idMaxID, idI, idCount, idRel, idHeld, idAllocs>>

\* limits given to newIDPool in the initializer specification
InitLimits == {0, 1, 2, 3, Uint16Max - 1, Uint16Max, Uint16Max + 1, Uint16Max + 4465}

InitIdInit ==
    /\ InitPool
    /\ \E limit \in InitLimits : IdPoolNew(limit, Uint16Max)

\* idsChan <- i received by an Alloc whose request never ends (no Release)
IdInitSend ==
    /\ ~idInitDone
    /\ IdLoopCond(idI, idMaxID)
    /\ idI' = IdIncr(idI, idTop)
    /\ idCount' = IF idCount <= idTop THEN idCount + 1 ELSE idCount
    /\ UNCHANGED <<idTop, idLimit, idMaxID, idInitDone, idRel, idHeld, idAllocs>>

NextIdInit ==
    \/ (IdInitSend /\ UNCHANGED <<poolVars, doVars, serveVars, codecVars>>)
    \/ (IdInitExit /\ UNCHANGED <<poolVars, doVars, serveVars, codecVars>>)

\* ---- Alloc and Release running concurrently ----

InitIds ==
    /\ InitPool
    /\ \E limit \in 0..(IdTopSmall + 1) : IdPoolNew(limit, IdTopSmall)

\* Alloc: <-p.IDs, served by the initializer's idsChan <- i
IdAllocFromInit(c) ==
    /\ idHeld[c] = NoID
    /\ idAllocs < MaxAllocs
    /\ ~idInitDone
    /\ IdLoopCond(idI, idMaxID)
    /\ idHeld' = [idHeld EXCEPT ![c] = idI]
    /\ idI' = IdIncr(idI, idTop)
    /\ idCount' = IF idCount <= idTop THEN idCount + 1 ELSE idCount
    /\ idAllocs' = idAllocs + 1
    /\ UNCHANGED <<idTop, idLimit, idMaxID, idInitDone, idRel>>

\* Alloc: <-p.IDs, served by a goroutine of Release
IdAllocFromRelease(c) ==
    /\ idHeld[c] = NoID
    /\ idAllocs < MaxAllocs
    /\ \E id \in BagToSet(idRel) :
         /\ idHeld' = [idHeld EXCEPT ![c] = id]
         /\ idRel' = idRel (-) SetToBag({id})
    /\ idAllocs' = idAllocs + 1
    /\ UNCHANGED <<idTop, idLimit, idMaxID, idI, idInitDone, idCount>>

\* Release(id): go func() { p.IDs <- id }()
IdRelease(c) ==
    /\ idHeld[c] # NoID
    /\ idRel' = idRel (+) SetToBag({idHeld[c]})
    /\ idHeld' = [idHeld EXCEPT ![c] = NoID]
    /\ UNCHANGED <<idTop, idLimit, idMaxID, idI, idInitDone, idCount, idAllocs>>

NextIds ==
    \/ (IdInitExit /\ UNCHANGED <<poolVars, doVars, serveVars, codecVars>>)
    \/ \E c \in IdCallers : (IdAllocFromInit(c) /\ UNCHANGED <<poolVars, doVars, serveVars, codecVars>>)
    \/ \E c \in IdCallers : (IdAllocFromRelease(c) /\ UNCHANGED <<poolVars, doVars, serveVars, codecVars>>)
    \/ \E c \in IdCallers : (IdRelease(c) /\ UNCHANGED <<poolVars, doVars, serveVars, codecVars>>)

(***************************************************************************)
(* Byte strings.  A byte string is a sequence of runs <<stream, lo, hi>>:  *)
(* the bytes lo..hi-1 of the named stream, adjacent runs merged.           *)
(***************************************************************************)

RECURSIVE BLen(_)
BLen(b) == IF b = <<>> THEN 0 ELSE (b[1][3] - b[1][2]) + BLen(Tail(b))

\* a then b
BCat(a, b) ==
    IF a = <<>> THEN b
    ELSE IF b = <<>> THEN a
    ELSE LET x == a[Len(a)]
             y == b[1]
         IN IF x[1] = y[1] /\ x[3] = y[2]
            THEN SubSeq(a, 1, Len(a) - 1) \o <<<<x[1], x[2], y[3]>>>> \o Tail(b)
            ELSE a \o b

\* the first n bytes of b: b[:n]
RECURSIVE BTake(_, _)
BTake(b, n) ==
    IF n = 0 \/ b = <<>> THEN <<>>
    ELSE LET l == b[1][3] - b[1][2]
         IN IF l <= n THEN <<b[1]>> \o BTake(Tail(b), n - l)
            ELSE <<<<b[1][1], b[1][2], b[1][2] + n>>>>

\* b without its first n bytes: b[n:]
RECURSIVE BDrop(_, _)
BDrop(b, n) ==
    IF n = 0 \/ b = <<>> THEN b
    ELSE LET l == b[1][3] - b[1][2]
         IN IF l <= n THEN BDrop(Tail(b), n - l)
            ELSE <<<<b[1][1], b[1][2] + n, b[1][3]>>>> \o Tail(b)

\* the bytes lo..hi-1 of a stream
Bytes(stream, lo, hi) == IF lo < hi THEN <<<<stream, lo, hi>>>> ELSE <<>>

(***************************************************************************)
(* Codec                                                                   *)
(***************************************************************************)

\* encodeSize: number of bytes that encode a length
encodeSize(size) == IF size > ShortSizeMax THEN 4 ELSE 1

\* binary.BigEndian.PutUint32 of a value below 2^31 whose bit 31 was set
\* before (size |= 1 << 31): the flag is bit 7 of the first byte
PutUint32Flagged(size) ==
    << FlagBit + (size \div (ByteMod * ByteMod * ByteMod)),
       (size \div (ByteMod * ByteMod)) % ByteMod,
       (size \div ByteMod) % ByteMod,
       size % ByteMod >>

\* variant: a length of 128 is still written in one byte
encodeSizeBuf_Late(size) ==
    IF size > ShortSizeMax + 1 THEN PutUint32Flagged(size) ELSE <<size % ByteMod>>

\* encodeSize: the bytes it puts into b
encodeSizeBuf(size) ==
    IF size > ShortSizeMax THEN PutUint32Flagged(size) ELSE <<size % ByteMod>>

\* readSize: <<size, n>>.  binary.BigEndian.Uint32(s) with bit 31 cleared
\* (size &^= 1 << 31): the first byte counts without its bit 7
readSize(s) ==
    IF Len(s) = 0 THEN <<0, 0>>
    ELSE IF s[1] >= FlagBit
         THEN IF Len(s) < 4 THEN <<0, 0>>
              ELSE << (s[1] - FlagBit) * (ByteMod * ByteMod * ByteMod)
                        + s[2] * (ByteMod * ByteMod) + s[3] * ByteMod + s[4],
                      4 >>
    ELSE <<s[1], 1>>

\* writePairs: the byte strings it hands to the stream writer, in order: for
\* each pair the two lengths, the name, the value.  off is the number of
\* bytes of the Params stream before this pair.
RECURSIVE PairWrites(_, _)
PairWrites(pairs, off) ==
    IF pairs = <<>> THEN <<>>
    ELSE LET k == pairs[1][1]
             v == pairs[1][2]
             n == encodeSize(k) + encodeSize(v)
         IN <<Bytes("Params", off, off + n),
              Bytes("Params", off + n, off + n + k),
              Bytes("Params", off + n + k, off + n + k + v)>>
            \o PairWrites(Tail(pairs), off + n + k + v)

\* length of the encoding of pairs
RECURSIVE PairsLen(_)
PairsLen(pairs) ==
    IF pairs = <<>> THEN 0
    ELSE encodeSize(pairs[1][1]) + encodeSize(pairs[1][2]) + pairs[1][1] + pairs[1][2]
         + PairsLen(Tail(pairs))

\* bufio.Writer of size maxWrite: the writes that fit the free space are
\* copied into the buffer; stops at the first write that does not fit
RECURSIVE BufioAbsorb(_, _)
BufioAbsorb(buf, ops) ==
    IF ops = <<>> THEN <<buf, ops>>
    ELSE IF BLen(ops[1]) <= maxWrite - BLen(buf)
         THEN CHOOSE r \in {BufioAbsorb(x[1], x[2]) :
                              x \in {<<BCat(buf, ops[1]), Tail(ops)>>}} : TRUE
         ELSE <<buf, ops>>

\* variant: the padding length is the remainder of the content length
headerInit_PadRem(recType, reqID, contentLength) ==
    [Version |-> 1, Type |-> recType, ID |-> reqID,
     ContentLength |-> contentLength % (Uint16Max + 1),
     PaddingLength |-> (contentLength % PadAlign) % (maxPad + 1),
     Reserved |-> 0]

\* header.init.  uint16(contentLength) keeps the low 16 bits.  -contentLength
\* & 7 is taken on the two's complement: the low three bits of the inverted
\* length, plus one, again cut to three bits.
headerInit(recType, reqID, contentLength) ==
    [Version |-> 1, Type |-> recType, ID |-> reqID,
     ContentLength |-> contentLength % (Uint16Max + 1),
     PaddingLength |->
         ((((PadAlign - 1) - (contentLength % PadAlign)) + 1) % PadAlign)
             % (maxPad + 1),
     Reserved |-> 0]

\* conn.writeRecord with a body of n bytes: the header and the bytes handed
\* to c.rwc.Write, that is the encoded header, the body and pad[:PaddingLength]
writeRecord(recType, reqID, n) ==
    LET h == headerInit(recType, reqID, n)
    IN  [h |-> h,
         bytes |-> BCat(BCat(Bytes("header", 0, HeaderLen), Bytes("content", 0, n)),
                        Bytes("pad", 0, h.PaddingLength))]

\* a record as the connection carries it
Rec(type, content) == [type |-> type, content |-> content]

\* the variant: the closing record carries a byte
TermRec_OneByte(type) == Rec(type, Bytes(type, 0, 1))

\* streamWriter.Close: the record that ends a stream
TermRec(type) == Rec(type, <<>>)

\* the body of a BeginRequest record
BeginBody == Bytes("Begin", 0, BeginBodyLen)

(***************************************************************************)
(* One request: client.Do, writeRequest, readResponse, ResponsePipe        *)
(***************************************************************************)

NoStdin == -1
NoErr == ""
ErrWrite == "write failed"
ErrStdin == "stdin read failed"
ErrTimeout == "timeout or canceled"
ErrUnexpected == "unexpected type"
ErrClosedConn == "client connection has been closed"
ErrRead == "read failed"

\* requests given to client.Do: Params as <<name length, value length>>
\* pairs, Stdin as a body length (NoStdin: req.Stdin == nil)
ReqInputs ==
    { [pairs |-> <<>>, stdin |-> NoStdin, connNil |-> TRUE],
      [pairs |-> <<>>, stdin |-> NoStdin, connNil |-> FALSE],
      [pairs |-> << <<3, 2>> >>, stdin |-> 0, connNil |-> FALSE],
      [pairs |-> << <<3, 2>>, <<4, 200>> >>, stdin |-> 5, connNil |-> FALSE],
      [pairs |-> << <<5, 70000>> >>, stdin |-> 1500, connNil |-> FALSE] }

\* contents of the Stdout records of the upstream, as lines of a CGI
\* response (the lines are defined with writeResponse below): nothing; a
\* header, the blank line and body bytes; a line without a colon
StdoutContents ==
    { <<>>,
      << [t |-> "hdr", name |-> "Content-Type", val |-> <<"t">>],
         [t |-> "blank", name |-> "", val |-> <<>>],
         [t |-> "body", name |-> "", val |-> <<>>] >>,
      << [t |-> "nocolon", name |-> "", val |-> <<>>] >> }

\* the request id in a record's header: the request's own, another one
RecIDs == {"own", "other"}

\* what the read loop can get from the connection
ServerRecs ==
    { [kind |-> "Stdout", id |-> i, content |-> c] :
        i \in RecIDs, c \in StdoutContents }
    \cup { [kind |-> k, id |-> i, content |-> <<>>] :
             i \in RecIDs, k \in {"EndRequest", "Other", "EOF", "ReadErr"} }
    \cup { [kind |-> "Stderr", id |-> i, content |-> <<>>] : i \in RecIDs }

\* the bytes of a Stderr record of the upstream
StderrText == <<"fatal">>

\* the state of writeResponse before its first read: the header loop
\* (phase), headerLines, statusCode, headers, the headers and the status given
\* to the http.ResponseWriter, the number of WriteHeader calls, the error
\* returned, the number of body writes, the number of lines read from the pipe
OcStart ==
    [pc |-> "idle", phase |-> "hdr", lines |-> 0, code |-> 0, hdrs |-> <<>>,
     out |-> <<>>, status |-> 0, nstatus |-> 0, err |-> NoErr, body |-> 0,
     nread |-> 0]

\* client.Do entered, nothing started, nothing on the connection
InitDoTasks ==
    /\ dpc = "alloc"
    /\ w = [pc |-> "idle", ops |-> <<>>, buf |-> <<>>, berr |-> FALSE,
            err |-> NoErr, off |-> 0]
    /\ wire = <<>>
    /\ wlog = [failed |-> {}, aborts |-> 0]
    /\ ctx = [done |-> FALSE, mid |-> FALSE]
    /\ rl = [pc |-> "idle", msg |-> <<>>, text |-> <<>>, n |-> 0, errRecs |-> 0,
             end |-> "", done |-> FALSE]
    /\ rdpc = "idle"
    /\ wg = [n |-> 0, allDone |-> FALSE]
    /\ sup = [pc |-> "idle", msg |-> NoErr]
    /\ pipes = [outClosed |-> FALSE, errClosed |-> FALSE]
    /\ oc = OcStart
    /\ ec = [pc |-> "idle", log |-> <<>>]

InitDo ==
    /\ req \in ReqInputs
    /\ InitDoTasks

\* the request part of the other specifications is not used
DoIdle ==
    /\ InitDo
    /\ req = [pairs |-> <<>>, stdin |-> NoStdin, connNil |-> TRUE]

\* conn.writeRecord: the connection accepts the record or the write fails
ConnWrite(rec, what, ok) ==
    /\ wire' = IF ok THEN Append(wire, rec) ELSE wire
    /\ wlog' = IF ok THEN wlog ELSE [wlog EXCEPT !.failed = @ \cup {what}]

\* Do: reqID := c.idPool.Alloc()
DoAlloc ==
    /\ dpc = "alloc"
    /\ (IdAllocFromInit(1) \/ IdAllocFromRelease(1))
    /\ dpc' = "check"
    /\ UNCHANGED <<req, w, wire, wlog, ctx, rl, rdpc, wg, sup, pipes, oc, ec>>

\* variant: Do without the check of c.conn
DoStart_NoCheck ==
    /\ dpc = "check"
    /\ dpc' = "started"
    /\ w' = [w EXCEPT !.pc = "begin", !.ops = PairWrites(req.pairs, 0)]
    /\ rl' = [rl EXCEPT !.pc = "read"]
    /\ rdpc' = "sel"
    /\ wg' = [wg EXCEPT !.n = 2]
    /\ sup' = [sup EXCEPT !.pc = "sel"]
    /\ oc' = [oc EXCEPT !.pc = "read"]
    /\ ec' = [ec EXCEPT !.pc = "read"]
    /\ UNCHANGED <<req, wire, wlog, ctx, pipes>>
    /\ UNCHANGED idVars

\* Do: resp = NewResponsePipe(); if c.conn == nil return the error;
\* otherwise start the wait, writer, reader and supervisor goroutines and
\* return.  The caller then runs resp.WriteTo.
DoStart ==
    /\ dpc = "check"
    /\ IF req.connNil
       THEN /\ dpc' = "failed"
            /\ UNCHANGED <<w, rl, rdpc, wg, sup, oc, ec>>
       ELSE /\ dpc' = "started"
            /\ w' = [w EXCEPT !.pc = "begin", !.ops = PairWrites(req.pairs, 0)]
            /\ rl' = [rl EXCEPT !.pc = "read"]
            /\ rdpc' = "sel"
            /\ wg' = [wg EXCEPT !.n = 2]
            /\ sup' = [sup EXCEPT !.pc = "sel"]
            /\ oc' = [oc EXCEPT !.pc = "read"]
            /\ ec' = [ec EXCEPT !.pc = "read"]
    /\ UNCHANGED <<req, wire, wlog, ctx, pipes>>
    /\ UNCHANGED idVars

\* Do: the error it returns
DoErr == IF dpc = "failed" THEN ErrClosedConn ELSE NoErr

\* ---- writer task: writeRequest ----

\* c.conn.writeBeginRequest
WBegin ==
    /\ w.pc = "begin"
    /\ \E ok \in BOOLEAN :
         /\ ConnWrite(Rec("BeginRequest", BeginBody), "BeginRequest", ok)
         /\ w' = IF ok THEN [w EXCEPT !.pc = "pairs"]
                 ELSE [w EXCEPT !.pc = "abort", !.err = ErrWrite]
    /\ UNCHANGED <<req, dpc, ctx, rl, rdpc, wg, sup, pipes, oc, ec>>
    /\ UNCHANGED idVars

\* writePairs: the Write and WriteString calls up to the next record.  A
\* write that does not fit fills the buffer, which is flushed as one record.
WPairs ==
    /\ w.pc = "pairs"
    /\ LET a == BufioAbsorb(w.buf, w.ops)
           buf1 == a[1]
           rest == a[2]
       IN IF rest = <<>>
          THEN /\ w' = [w EXCEPT !.buf = buf1, !.ops = <<>>,
                                 !.pc = IF buf1 = <<>> THEN "pterm" ELSE "pflush"]
               /\ UNCHANGED <<wire, wlog>>
          ELSE LET n == maxWrite - BLen(buf1)
                   full == BCat(buf1, BTake(rest[1], n))
               IN \E ok \in BOOLEAN :
                    /\ ConnWrite(Rec("Params", full), "Params", ok)
                    /\ w' = IF ok
                            THEN [w EXCEPT !.buf = <<>>,
                                           !.ops = <<BDrop(rest[1], n)>> \o Tail(rest)]
                            ELSE [w EXCEPT !.buf = full, !.berr = TRUE,
                                           !.pc = "abort", !.err = ErrWrite]
    /\ UNCHANGED <<req, dpc, ctx, rl, rdpc, wg, sup, pipes, oc, ec>>
    /\ UNCHANGED idVars

\* writePairs: w.Close(), first part: Flush of the buffered bytes
WPFlush ==
    /\ w.pc = "pflush"
    /\ \E ok \in BOOLEAN :
         /\ ConnWrite(Rec("Params", w.buf), "Params", ok)
         /\ w' = IF ok THEN [w EXCEPT !.buf = <<>>, !.pc = "pterm"]
                 ELSE [w EXCEPT !.berr = TRUE, !.pc = "pterm"]
    /\ UNCHANGED <<req, dpc, ctx, rl, rdpc, wg, sup, pipes, oc, ec>>
    /\ UNCHANGED idVars

\* writePairs: w.Close(), second part: the closing record; the result of
\* Close is dropped and writePairs returns nil.  Then writeRequest goes on
\* with req.Stdin, on a new stream writer, or returns nil.
WPTerm ==
    /\ w.pc = "pterm"
    /\ \E ok \in BOOLEAN : ConnWrite(TermRec("Params"), "ParamsEnd", ok)
    /\ w' = [w EXCEPT !.buf = <<>>, !.berr = FALSE,
                      !.pc = IF req.stdin = NoStdin THEN "ret" ELSE "sread"]
    /\ UNCHANGED <<req, dpc, ctx, rl, rdpc, wg, sup, pipes, oc, ec>>
    /\ UNCHANGED idVars

\* the variant: every read returns the start of the body again
StdinRead_Rewind(off, count) == Bytes("Stdin", 0, count)

\* req.Stdin.Read(p): p[:count], the next count bytes of the body
StdinRead(off, count) == Bytes("Stdin", off, off + count)

\* the counts a req.Stdin.Read(p) can return with rem bytes of the body left:
\* the whole of p, or fewer bytes (a short read)
ReadCounts(rem) ==
    { IF rem < StdinChunk THEN rem ELSE StdinChunk,
      IF rem < ShortRead THEN rem ELSE ShortRead }

\* writeRequest: count, err = req.Stdin.Read(p), then stdinWriter.Write(p[:count]).
\* The read returns the next bytes of the body, io.EOF, or an error.
WStdinRead ==
    /\ w.pc = "sread"
    /\ \/ \* data
          /\ w.off < req.stdin
          /\ \E count \in ReadCounts(req.stdin - w.off) :
             LET p == StdinRead(w.off, count)
                 free == maxWrite - BLen(w.buf)
             IN IF count <= free
                THEN /\ w' = [w EXCEPT !.buf = BCat(w.buf, p), !.off = @ + count]
                     /\ UNCHANGED <<wire, wlog>>
                ELSE LET full == BCat(w.buf, BTake(p, free))
                     IN \E ok \in BOOLEAN :
                          /\ ConnWrite(Rec("Stdin", full), "Stdin", ok)
                          /\ w' = IF ok
                                  THEN [w EXCEPT !.buf = BDrop(p, free), !.off = @ + count]
                                  ELSE [w EXCEPT !.buf = full, !.berr = TRUE,
                                                 !.off = @ + count,
                                                 !.err = ErrWrite, !.pc = "sflush"]
       \/ \* io.EOF with count == 0
          /\ w.off = req.stdin
          /\ w' = [w EXCEPT !.pc = "sflush"]
          /\ UNCHANGED <<wire, wlog>>
       \/ \* any other error
          /\ w' = [w EXCEPT !.err = ErrStdin, !.pc = "sflush"]
          /\ UNCHANGED <<wire, wlog>>
    /\ UNCHANGED <<req, dpc, ctx, rl, rdpc, wg, sup, pipes, oc, ec>>
    /\ UNCHANGED idVars

\* variant: Close does not flush, the buffered bytes are lost
WSFlush_Skip ==
    /\ w.pc = "sflush"
    /\ w' = [w EXCEPT !.buf = <<>>, !.pc = "sterm"]
    /\ UNCHANGED <<wire, wlog>>
    /\ UNCHANGED <<req, dpc, ctx, rl, rdpc, wg, sup, pipes, oc, ec>>
    /\ UNCHANGED idVars

\* stdinWriter.Close(), first part: Flush (nothing to do with an empty buffer
\* or after a failed write)
WSFlush ==
    /\ w.pc = "sflush"
    /\ IF w.berr \/ w.buf = <<>>
       THEN /\ w' = [w EXCEPT !.pc = "sterm"]
            /\ UNCHANGED <<wire, wlog>>
       ELSE \E ok \in BOOLEAN :
              /\ ConnWrite(Rec("Stdin", w.buf), "Stdin", ok)
              /\ w' = IF ok THEN [w EXCEPT !.buf = <<>>, !.pc = "sterm"]
                      ELSE [w EXCEPT !.berr = TRUE, !.pc = "sterm",
                                     !.err = IF @ = NoErr THEN ErrWrite ELSE @]
    /\ UNCHANGED <<req, dpc, ctx, rl, rdpc, wg, sup, pipes, oc, ec>>
    /\ UNCHANGED idVars

\* stdinWriter.Close(), second part: the closing record; writeRequest returns
WSTerm ==
    /\ w.pc = "sterm"
    /\ \E ok \in BOOLEAN :
         /\ ConnWrite(TermRec("Stdin"), "StdinEnd", ok)
         /\ LET e == IF w.err = NoErr /\ ~ok THEN ErrWrite ELSE w.err
            IN w' = [w EXCEPT !.err = e, !.pc = IF e = NoErr THEN "ret" ELSE "abort"]
    /\ UNCHANGED <<req, dpc, ctx, rl, rdpc, wg, sup, pipes, oc, ec>>
    /\ UNCHANGED idVars

\* writeRequest, deferred: if err != nil { c.conn.writeAbortRequest(reqID) }
WAbort ==
    /\ w.pc = "abort"
    /\ \E ok \in BOOLEAN :
         /\ wire' = IF ok THEN Append(wire, Rec("AbortRequest", <<>>)) ELSE wire
         /\ wlog' = [wlog EXCEPT !.aborts = @ + 1,
                                 !.failed = IF ok THEN @ ELSE @ \cup {"AbortRequest"}]
    /\ w' = [w EXCEPT !.pc = "ret"]
    /\ UNCHANGED <<req, dpc, ctx, rl, rdpc, wg, sup, pipes, oc, ec>>
    /\ UNCHANGED idVars

\* writer goroutine: writeRequest returned nil: wg.Done()
WDone ==
    /\ w.pc = "ret"
    /\ w.err = NoErr
    /\ w' = [w EXCEPT !.pc = "done"]
    /\ wg' = [wg EXCEPT !.n = @ - 1]
    /\ UNCHANGED <<req, dpc, wire, wlog, ctx, rl, rdpc, sup, pipes, oc, ec>>
    /\ UNCHANGED idVars

\* writer goroutine: rwError <- err, received by the supervisor; wg.Done()
WSendErr ==
    /\ w.pc = "ret"
    /\ w.err # NoErr
    /\ sup.pc = "sel"
    /\ sup' = [sup EXCEPT !.pc = "write", !.msg = w.err]
    /\ w' = [w EXCEPT !.pc = "done"]
    /\ wg' = [wg EXCEPT !.n = @ - 1]
    /\ UNCHANGED <<req, dpc, wire, wlog, ctx, rl, rdpc, pipes, oc, ec>>
    /\ UNCHANGED idVars

\* ---- reader task: readResponse ----

\* A line of the CGI response on stdout.  t: "hdr" a line "name: val",
\* "blank" the empty line, "nocolon" a line without ':', "long" a line longer
\* than the reader's buffer, "body" bytes of the body.  Names are strings,
\* values are sequences of characters; both are given without surrounding
\* white space.
HdrLine(n, v) == [t |-> "hdr", name |-> n, val |-> v]

BlankLine == [t |-> "blank", name |-> "", val |-> <<>>]

NoColonLine == [t |-> "nocolon", name |-> "", val |-> <<>>]

LongLine == [t |-> "long", name |-> "", val |-> <<>>]

BodyLine == [t |-> "body", name |-> "", val |-> <<>>]

\* value of a decimal digit, -1 for any other character
DigitOf(c) ==
    CASE c = "0" -> 0 [] c = "1" -> 1 [] c = "2" -> 2 [] c = "3" -> 3
      [] c = "4" -> 4 [] c = "5" -> 5 [] c = "6" -> 6 [] c = "7" -> 7
      [] c = "8" -> 8 [] c = "9" -> 9 [] OTHER -> -1

\* strconv.Atoi: an optional sign, then decimal digits only
RECURSIVE AtoiDigits(_, _)
AtoiDigits(s, acc) ==
    IF s = <<>> THEN [ok |-> TRUE, n |-> acc]
    ELSE IF DigitOf(s[1]) < 0 THEN [ok |-> FALSE, n |-> 0]
    ELSE AtoiDigits(Tail(s), 10 * acc + DigitOf(s[1]))

Atoi(s) ==
    IF s = <<>> THEN [ok |-> FALSE, n |-> 0]
    ELSE IF s[1] \in {"+", "-"}
         THEN IF Len(s) < 2 THEN [ok |-> FALSE, n |-> 0]
              ELSE LET r == AtoiDigits(Tail(s), 0)
                   IN  IF s[1] = "-" THEN [ok |-> r.ok, n |-> 0 - r.n] ELSE r
    ELSE AtoiDigits(s, 0)

\* http.Header keys are canonical: Add and Get apply CanonicalMIMEHeaderKey
CanonicalKey(n) ==
    CASE n = "status" -> "Status"
      [] n = "location" -> "Location"
      [] n = "content-type" -> "Content-Type"
      [] OTHER -> n

\* http.Header.Add on a list of <<key, value>> in the order added
HeaderAdd(hdrs, n, v) == Append(hdrs, <<CanonicalKey(n), v>>)

\* http.Header.Get: the first value of the key, "" when there is none
HeaderGet(hdrs, n) ==
    LET k == CanonicalKey(n)
        at == {i \in 1..Len(hdrs) : hdrs[i][1] = k}
    IN  IF at = {} THEN <<>>
        ELSE hdrs[CHOOSE i \in at : \A j \in at : i <= j][2]

\* http.ResponseWriter.WriteHeader: the first call fixes the status of the
\* response; nstatus counts the calls
WriteHeader(o, code) ==
    [o EXCEPT !.status = IF o.nstatus = 0 THEN code ELSE @, !.nstatus = @ + 1]

\* writeResponse after the header loop: the checks, the copy of the headers
\* into w.Header() and WriteHeader(statusCode)
HeaderEnd(o, sawBlankLine) ==
    IF o.lines = 0 \/ ~sawBlankLine
    THEN [WriteHeader(o, 500) EXCEPT !.err = "no headers", !.pc = "ret"]
    ELSE LET code1 == IF HeaderGet(o.hdrs, "Location") # <<>> /\ o.code = 0
                      THEN 302 ELSE o.code
         IN  IF code1 = 0 /\ HeaderGet(o.hdrs, "Content-Type") = <<>>
             THEN [WriteHeader(o, 500) EXCEPT
                       !.err = "missing required Content-Type in headers",
                       !.pc = "ret"]
             ELSE LET code2 == IF code1 = 0 THEN 200 ELSE code1
                  IN  [WriteHeader(o, code2) EXCEPT
                           !.code = code2, !.out = o.hdrs, !.phase = "body"]

\* writeResponse: one turn of the header loop on a line that was read
HeaderLine(o, l) ==
    IF l.t = "long"
    THEN [WriteHeader(o, 500) EXCEPT
              !.err = "long header line from subprocess", !.pc = "ret"]
    ELSE IF l.t = "blank" THEN HeaderEnd(o, TRUE)
    ELSE IF l.t # "hdr"
         THEN [o EXCEPT !.lines = @ + 1, !.err = "bogus header line", !.pc = "ret"]
    ELSE IF l.name = "Status"
         THEN IF Len(l.val) < 3
              THEN [o EXCEPT !.lines = @ + 1, !.err = "bogus status (short)",
                             !.pc = "ret"]
              ELSE LET r == Atoi(SubSeq(l.val, 1, 3))
                   IN  IF ~r.ok
                       THEN [o EXCEPT !.lines = @ + 1, !.err = "bogus status",
                                      !.pc = "ret"]
                       ELSE [o EXCEPT !.lines = @ + 1, !.code = r.n]
    ELSE [o EXCEPT !.lines = @ + 1, !.hdrs = HeaderAdd(@, l.name, l.val)]

\* writeResponse: what the header loop and the copy do with the lines of one
\* read from the stdout pipe; wok: the writes of the copy to w succeed
RECURSIVE ParseLines(_, _, _)
ParseLines(o, lines, wok) ==
    IF lines = <<>> \/ o.pc = "ret" THEN o
    ELSE IF o.phase = "body"
         THEN IF wok
              THEN ParseLines([o EXCEPT !.body = @ + 1, !.nread = @ + 1],
                              Tail(lines), wok)
              ELSE [o EXCEPT !.err = "copy error", !.pc = "ret", !.nread = @ + 1]
    ELSE ParseLines(HeaderLine([o EXCEPT !.nread = @ + 1], lines[1]),
                    Tail(lines), wok)

\* read loop: rec.read(c.conn.rwc) and the switch on the record type
ReadLoopRead ==
    /\ rl.pc = "read"
    /\ rl.n < MaxRecs
    /\ \E r \in ServerRecs :
         rl' = CASE r.kind = "Stdout" ->
                      [rl EXCEPT !.pc = "wout", !.msg = r.content, !.n = @ + 1]
                 [] r.kind = "Stderr" ->
                      [rl EXCEPT !.pc = "werr", !.text = StderrText, !.n = @ + 1,
                                 !.errRecs = @ + 1]
                 [] r.kind = "Other" ->
                      [rl EXCEPT !.pc = "werr", !.text = <<ErrUnexpected>>, !.n = @ + 1]
                 [] r.kind = "EndRequest" ->
                      [rl EXCEPT !.pc = "exit", !.end = "end", !.done = TRUE, !.n = @ + 1]
                 [] r.kind = "EOF" ->
                      [rl EXCEPT !.pc = "exit", !.end = "eof", !.done = TRUE, !.n = @ + 1]
                 [] OTHER ->
                      [rl EXCEPT !.pc = "exit", !.end = "err", !.done = TRUE, !.n = @ + 1]
    /\ UNCHANGED <<req, dpc, w, wire, wlog, ctx, rdpc, wg, sup, pipes, oc, ec>>
    /\ UNCHANGED idVars

\* variant: the read loop loses the content of a Stdout record
ReadLoopWriteOut_Drop ==
    /\ rl.pc = "wout"
    /\ (pipes.outClosed \/ oc.pc = "read")
    /\ oc' = oc
    /\ rl' = [rl EXCEPT !.pc = "read", !.msg = <<>>]
    /\ UNCHANGED <<req, dpc, w, wire, wlog, ctx, rdpc, wg, sup, pipes, ec>>
    /\ UNCHANGED idVars

\* read loop: resp.stdOutWriter.Write(rec.content()): returns when the
\* reading side has taken the bytes, or at once when the pipe is closed
ReadLoopWriteOut ==
    /\ rl.pc = "wout"
    /\ IF pipes.outClosed
       THEN oc' = oc
       ELSE /\ oc.pc = "read"
            /\ \E wok \in BOOLEAN : oc' = ParseLines(oc, rl.msg, wok)
    /\ rl' = [rl EXCEPT !.pc = "read", !.msg = <<>>]
    /\ UNCHANGED <<req, dpc, w, wire, wlog, ctx, rdpc, wg, sup, pipes, ec>>
    /\ UNCHANGED idVars

\* variant: the read loop loses the content of the record
ReadLoopWriteErr_Drop ==
    /\ rl.pc = "werr"
    /\ (pipes.errClosed \/ ec.pc = "read")
    /\ ec' = ec
    /\ rl' = [rl EXCEPT !.pc = "read", !.text = <<>>]
    /\ UNCHANGED <<req, dpc, w, wire, wlog, ctx, rdpc, wg, sup, pipes, oc>>
    /\ UNCHANGED idVars

\* read loop: resp.stdErrWriter.Write(...)
ReadLoopWriteErr ==
    /\ rl.pc = "werr"
    /\ IF pipes.errClosed
       THEN ec' = ec
       ELSE /\ ec.pc = "read"
            /\ ec' = [ec EXCEPT !.log = @ \o rl.text]
    /\ rl' = [rl EXCEPT !.pc = "read", !.text = <<>>]
    /\ UNCHANGED <<req, dpc, w, wire, wlog, ctx, rdpc, wg, sup, pipes, oc>>
    /\ UNCHANGED idVars

\* a BeginRequest record is on the connection
BeginWritten == \E i \in 1..Len(wire) : wire[i].type = "BeginRequest"

\* the request's context is cancelled (req.Raw.Context()).  ctx.mid records
\* that the request had begun and the read loop was still running.
Cancel ==
    /\ dpc = "started"
    /\ ~ctx.done
    /\ ctx' = [done |-> TRUE, mid |-> BeginWritten /\ rl.end = ""]
    /\ UNCHANGED <<req, dpc, w, wire, wlog, rl, rdpc, wg, sup, pipes, oc, ec>>
    /\ UNCHANGED idVars

\* readResponse: select, case <-done; the reader goroutine calls wg.Done()
ReaderDone ==
    /\ rdpc = "sel"
    /\ rl.done
    /\ rdpc' = "done"
    /\ wg' = [wg EXCEPT !.n = @ - 1]
    /\ UNCHANGED <<req, dpc, w, wire, wlog, ctx, rl, sup, pipes, oc, ec>>
    /\ UNCHANGED idVars

\* readResponse: select, case <-ctx.Done(): err = "timeout or canceled"
ReaderCancelled ==
    /\ rdpc = "sel"
    /\ ctx.done
    /\ rdpc' = "send"
    /\ UNCHANGED <<req, dpc, w, wire, wlog, ctx, rl, wg, sup, pipes, oc, ec>>
    /\ UNCHANGED idVars

\* reader goroutine: rwError <- err, received by the supervisor; wg.Done()
ReaderSendErr ==
    /\ rdpc = "send"
    /\ sup.pc = "sel"
    /\ sup' = [sup EXCEPT !.pc = "write", !.msg = ErrTimeout]
    /\ rdpc' = "done_err"
    /\ wg' = [wg EXCEPT !.n = @ - 1]
    /\ UNCHANGED <<req, dpc, w, wire, wlog, ctx, rl, pipes, oc, ec>>
    /\ UNCHANGED idVars

\* ---- wait goroutine and supervisor ----

\* wg.Wait(); close(allDone)
WaitAll ==
    /\ dpc = "started"
    /\ wg.n = 0
    /\ ~wg.allDone
    /\ wg' = [wg EXCEPT !.allDone = TRUE]
    /\ UNCHANGED <<req, dpc, w, wire, wlog, ctx, rl, rdpc, sup, pipes, oc, ec>>
    /\ UNCHANGED idVars

\* supervisor: resp.stdErrWriter.Write([]byte(err.Error()))
SupWriteErr ==
    /\ sup.pc = "write"
    /\ IF pipes.errClosed
       THEN ec' = ec
       ELSE /\ ec.pc = "read"
            /\ ec' = [ec EXCEPT !.log = Append(@, sup.msg)]
    /\ sup' = [sup EXCEPT !.pc = "sel", !.msg = NoErr]
    /\ UNCHANGED <<req, dpc, w, wire, wlog, ctx, rl, rdpc, wg, pipes, oc>>
    /\ UNCHANGED idVars

\* supervisor: select, case <-allDone: break loop
SupAllDone ==
    /\ sup.pc = "sel"
    /\ wg.allDone
    /\ sup' = [sup EXCEPT !.pc = "rel"]
    /\ UNCHANGED <<req, dpc, w, wire, wlog, ctx, rl, rdpc, wg, pipes, oc, ec>>
    /\ UNCHANGED idVars

\* the variant: the supervisor closes the pipes without releasing the id
SupRelease_Skip ==
    /\ sup.pc = "rel"
    /\ sup' = [sup EXCEPT !.pc = "close"]
    /\ UNCHANGED <<req, dpc, w, wire, wlog, ctx, rl, rdpc, wg, pipes, oc, ec>>
    /\ UNCHANGED idVars

\* supervisor: c.idPool.Release(reqID)
SupRelease ==
    /\ sup.pc = "rel"
    /\ IdRelease(1)
    /\ sup' = [sup EXCEPT !.pc = "close"]
    /\ UNCHANGED <<req, dpc, w, wire, wlog, ctx, rl, rdpc, wg, pipes, oc, ec>>

\* supervisor: resp.Close(); close(rwError)
SupClose ==
    /\ sup.pc = "close"
    /\ pipes' = [outClosed |-> TRUE, errClosed |-> TRUE]
    /\ sup' = [sup EXCEPT !.pc = "exit"]
    /\ UNCHANGED <<req, dpc, w, wire, wlog, ctx, rl, rdpc, wg, oc, ec>>
    /\ UNCHANGED idVars

\* ---- ResponsePipe.WriteTo ----

\* writeResponse: the stdout pipe reports io.EOF
WriteResponseEOF ==
    /\ oc.pc = "read"
    /\ pipes.outClosed
    /\ oc' = IF oc.phase = "hdr"
             THEN HeaderEnd(oc, FALSE)
             ELSE [oc EXCEPT !.pc = "ret"]
    /\ UNCHANGED <<req, dpc, w, wire, wlog, ctx, rl, rdpc, wg, sup, pipes, ec>>
    /\ UNCHANGED idVars

\* writeError: io.Copy ends when the stderr pipe reports io.EOF
WriteErrorEOF ==
    /\ ec.pc = "read"
    /\ pipes.errClosed
    /\ ec' = [ec EXCEPT !.pc = "ret"]
    /\ UNCHANGED <<req, dpc, w, wire, wlog, ctx, rl, rdpc, wg, sup, pipes, oc>>
    /\ UNCHANGED idVars

\* WriteTo returns when both copies have returned
WriteToReturned == oc.pc = "ret" /\ ec.pc = "ret"

\* ---- Handler.ServeHTTP ----

\* the other specifications serve no HTTP request and apply no codec function
ServeIdle == hpc = "idle" /\ stdoutIn = <<>>

CodecIdle == fnArg = 0 /\ fnRes = 0

\* header lines the upstream can send
StatusValues ==
    { <<"4", "0", "4">>, <<"2", "0", "1", " ", "C">>, <<"2", "0">>,
      <<"a", "b", "c">>, <<"0", "0", "0">> }

CgiLines ==
    { HdrLine("Status", v) : v \in StatusValues }
    \cup { HdrLine("status", <<"4", "0", "4">>),
           HdrLine("Location", <<"/">>), HdrLine("Location", <<>>),
           HdrLine("Content-Type", <<"t">>), HdrLine("X-A", <<"1">>),
           BlankLine, NoColonLine, LongLine, BodyLine }

\* the CGI responses: every sequence of up to MaxLines lines
CgiStreams == UNION { [1..n -> CgiLines] : n \in 0..MaxLines }

\* http.Error(w, text, code): w.WriteHeader(code), then the text as body
HTTPError(o, code) == [WriteHeader(o, code) EXCEPT !.body = @ + 1]

InitServe ==
    /\ hpc = "new"
    /\ stdoutIn \in CgiStreams

\* ServeHTTP: c, err := h.newClient(); on an error 502 and return
ServeNewClient ==
    /\ hpc = "new"
    /\ \E ok \in BOOLEAN :
         IF ok THEN hpc' = "handler" /\ oc' = oc
         ELSE hpc' = "returned" /\ oc' = HTTPError(oc, 502)
    /\ UNCHANGED <<req, dpc, w, wire, wlog, ctx, rl, rdpc, wg, sup, pipes, ec>>
    /\ UNCHANGED stdoutIn

\* ServeHTTP: resp, err := h.requestHandler(c, NewRequest(r)); on an error 500
\* and return, otherwise resp.WriteTo(w, errBuffer) starts writeResponse
ServeHandler ==
    /\ hpc = "handler"
    /\ \E ok \in BOOLEAN :
         IF ok THEN hpc' = "writeto" /\ oc' = [oc EXCEPT !.pc = "read"]
         ELSE hpc' = "returned" /\ oc' = HTTPError(oc, 500)
    /\ UNCHANGED <<req, dpc, w, wire, wlog, ctx, rl, rdpc, wg, sup, pipes, ec>>
    /\ UNCHANGED stdoutIn

\* writeResponse reads the next line the upstream sent
ServeReadLine ==
    /\ hpc = "writeto"
    /\ oc.pc = "read"
    /\ oc.nread < Len(stdoutIn)
    /\ \E wok \in BOOLEAN :
         oc' = ParseLines(oc, <<stdoutIn[oc.nread + 1]>>, wok)
    /\ UNCHANGED <<req, dpc, w, wire, wlog, ctx, rl, rdpc, wg, sup, pipes, ec>>
    /\ UNCHANGED <<hpc, stdoutIn>>

\* writeResponse: the stdout pipe reports io.EOF
ServeReadEOF ==
    /\ hpc = "writeto"
    /\ oc.pc = "read"
    /\ oc.nread = Len(stdoutIn)
    /\ oc' = IF oc.phase = "hdr"
             THEN HeaderEnd(oc, FALSE)
             ELSE [oc EXCEPT !.pc = "ret"]
    /\ UNCHANGED <<req, dpc, w, wire, wlog, ctx, rl, rdpc, wg, sup, pipes, ec>>
    /\ UNCHANGED <<hpc, stdoutIn>>

\* ServeHTTP: WriteTo has returned; on an error 500 and return
ServeWriteToReturn ==
    /\ hpc = "writeto"
    /\ oc.pc = "ret"
    /\ oc' = IF oc.err # NoErr THEN HTTPError(oc, 500) ELSE oc
    /\ hpc' = "returned"
    /\ UNCHANGED <<req, dpc, w, wire, wlog, ctx, rl, rdpc, wg, sup, pipes, ec>>
    /\ UNCHANGED stdoutIn

NextServe ==
    \/ (ServeNewClient /\ UNCHANGED <<poolVars, idVars, codecVars>>)
    \/ (ServeHandler /\ UNCHANGED <<poolVars, idVars, codecVars>>)
    \/ (ServeReadLine /\ UNCHANGED <<poolVars, idVars, codecVars>>)
    \/ (ServeReadEOF /\ UNCHANGED <<poolVars, idVars, codecVars>>)
    \/ (ServeWriteToReturn /\ UNCHANGED <<poolVars, idVars, codecVars>>)

InitSpecDo ==
    /\ InitPool
    /\ IdPoolNew(1, Uint16Max)
    /\ InitDo
    /\ ServeIdle
    /\ CodecIdle

\* the requests of the specification with scheduling assumptions: a closed
\* connection, a request without Stdin, a request with an empty Stdin
InitFairDo ==
    /\ InitSpecDo
    /\ req.pairs \in {<<>>, << <<3, 2>> >>}

NextDo ==
    \/ (DoAlloc /\ UNCHANGED <<poolVars, serveVars, codecVars>>)
    \/ (DoStart /\ UNCHANGED <<poolVars, serveVars, codecVars>>)
    \/ (WBegin /\ UNCHANGED <<poolVars, serveVars, codecVars>>)
    \/ (WPairs /\ UNCHANGED <<poolVars, serveVars, codecVars>>)
    \/ (WPFlush /\ UNCHANGED <<poolVars, serveVars, codecVars>>)
    \/ (WPTerm /\ UNCHANGED <<poolVars, serveVars, codecVars>>)
    \/ (WStdinRead /\ UNCHANGED <<poolVars, serveVars, codecVars>>)
    \/ (WSFlush /\ UNCHANGED <<poolVars, serveVars, codecVars>>)
    \/ (WSTerm /\ UNCHANGED <<poolVars, serveVars, codecVars>>)
    \/ (WAbort /\ UNCHANGED <<poolVars, serveVars, codecVars>>)
    \/ (WDone /\ UNCHANGED <<poolVars, serveVars, codecVars>>)
    \/ (WSendErr /\ UNCHANGED <<poolVars, serveVars, codecVars>>)
    \/ (ReadLoopRead /\ UNCHANGED <<poolVars, serveVars, codecVars>>)
    \/ (ReadLoopWriteOut /\ UNCHANGED <<poolVars, serveVars, codecVars>>)
    \/ (ReadLoopWriteErr /\ UNCHANGED <<poolVars, serveVars, codecVars>>)
    \/ (Cancel /\ UNCHANGED <<poolVars, serveVars, codecVars>>)
    \/ (ReaderDone /\ UNCHANGED <<poolVars, serveVars, codecVars>>)
    \/ (ReaderCancelled /\ UNCHANGED <<poolVars, serveVars, codecVars>>)
    \/ (ReaderSendErr /\ UNCHANGED <<poolVars, serveVars, codecVars>>)
    \/ (WaitAll /\ UNCHANGED <<poolVars, serveVars, codecVars>>)
    \/ (SupWriteErr /\ UNCHANGED <<poolVars, serveVars, codecVars>>)
    \/ (SupAllDone /\ UNCHANGED <<poolVars, serveVars, codecVars>>)
    \/ (SupRelease /\ UNCHANGED <<poolVars, serveVars, codecVars>>)
    \/ (SupClose /\ UNCHANGED <<poolVars, serveVars, codecVars>>)
    \/ (WriteResponseEOF /\ UNCHANGED <<poolVars, serveVars, codecVars>>)
    \/ (WriteErrorEOF /\ UNCHANGED <<poolVars, serveVars, codecVars>>)

\* ---- specifications ----

InitSpecPool == InitPool /\ IdPoolIdle /\ DoIdle /\ ServeIdle /\ CodecIdle

SpecPool == InitSpecPool /\ [][NextPool]_vars

InitSpecIdInit == InitIdInit /\ DoIdle /\ ServeIdle /\ CodecIdle

SpecIdInit == InitSpecIdInit /\ [][NextIdInit]_vars

InitSpecIds == InitIds /\ DoIdle /\ ServeIdle /\ CodecIdle

SpecIds == InitSpecIds /\ [][NextIds]_vars

SpecDo == InitSpecDo /\ [][NextDo]_vars

\* ---- the pool under fair scheduling of its goroutines ----

\* the stocker goroutine's steps
StockerStep ==
    (StockerTag \/ StockerFactory \/ StockerPush)
      /\ UNCHANGED <<idVars, doVars, serveVars, codecVars>>

\* the steps of CreateClient once caller c has its PoolClient
CreateStep(c) ==
    (CreateNewConn(c) \/ CreateUntag(c))
      /\ UNCHANGED <<idVars, doVars, serveVars, codecVars>>

\* the steps of the return task of PoolClient p
ReturnStep(p) ==
    (ReturnCloseConn(p) \/ ReturnTag(p) \/ ReturnPush(p))
      /\ UNCHANGED <<idVars, doVars, serveVars, codecVars>>

\* every goroutine that can take a step is scheduled; whether a consumer
\* calls CreateClient or Close at all, and the clock, are left open
FairPool ==
    /\ WF_vars(StockerStep)
    /\ \A c \in Callers : WF_vars(CreateStep(c))
    /\ \A p \in PCs : WF_vars(ReturnStep(p))

FairSpecPool == InitSpecPool /\ [][NextPool]_vars /\ FairPool

\* ---- the writer task alone, on long Stdin bodies ----

\* body lengths: empty, one byte, one read, around one full record, two full
\* records, more than three records
StdinSizes == {0, 1, 1024, 65535, 65536, 131070, 200000}

InitSpecStdin ==
    /\ InitPool
    /\ IdPoolNew(1, Uint16Max)
    /\ req \in { [pairs |-> << <<3, 2>> >>, stdin |-> n, connNil |-> FALSE] :
                    n \in StdinSizes }
    /\ InitDoTasks
    /\ ServeIdle
    /\ CodecIdle

\* Do and the steps of the writer task; the other tasks of the request are
\* not scheduled meanwhile
NextStdin ==
    \/ (DoAlloc /\ UNCHANGED <<poolVars, serveVars, codecVars>>)
    \/ (DoStart /\ UNCHANGED <<poolVars, serveVars, codecVars>>)
    \/ (WBegin /\ UNCHANGED <<poolVars, serveVars, codecVars>>)
    \/ (WPairs /\ UNCHANGED <<poolVars, serveVars, codecVars>>)
    \/ (WPFlush /\ UNCHANGED <<poolVars, serveVars, codecVars>>)
    \/ (WPTerm /\ UNCHANGED <<poolVars, serveVars, codecVars>>)
    \/ (WStdinRead /\ UNCHANGED <<poolVars, serveVars, codecVars>>)
    \/ (WSFlush /\ UNCHANGED <<poolVars, serveVars, codecVars>>)
    \/ (WSTerm /\ UNCHANGED <<poolVars, serveVars, codecVars>>)
    \/ (WAbort /\ UNCHANGED <<poolVars, serveVars, codecVars>>)
    \/ (WDone /\ UNCHANGED <<poolVars, serveVars, codecVars>>)
    \/ (WSendErr /\ UNCHANGED <<poolVars, serveVars, codecVars>>)

SpecStdin == InitSpecStdin /\ [][NextStdin]_vars

\* ---- Client.Request of the simple client ----

\* what rec.read(c.conn.rwc) can give: a record with its content, io.EOF, or
\* another error
InRecs ==
    { [type |-> "Stdout", content |-> <<"a">>],
      [type |-> "Stdout", content |-> <<"b", "c">>],
      [type |-> "Stderr", content |-> <<"e">>],
      [type |-> "GetValuesResult", content |-> <<"x">>],
      [type |-> "EndRequest", content |-> <<"z">>],
      [type |-> "EOF", content |-> <<>>],
      [type |-> "ReadErr", content |-> <<>>] }

\* the reads that end the loop of Request
EndsRequest(r) == r.type \in {"EndRequest", "EOF", "ReadErr"}

\* Request(paramsMap, reqStr): the pairs and len(reqStr)
RequestInputs ==
    { [pairs |-> ps, stdin |-> n, connNil |-> FALSE] :
        ps \in { <<>>, << <<3, 2>> >>, << <<5, 70000>> >> },
        n \in {0, 5, maxWrite, maxWrite + 4465} }

InitRequest ==
    /\ req \in RequestInputs
    /\ InitDoTasks
    /\ fnArg = 0
    /\ fnRes = [pc |-> "begin", ops |-> <<>>, junk |-> 0, got |-> <<>>,
                retout |-> <<>>, reterr |-> <<>>, err |-> NoErr]

\* Request: c.conn.writeBeginRequest
RqBegin ==
    /\ fnRes.pc = "begin"
    /\ \E ok \in BOOLEAN :
         /\ ConnWrite(Rec("BeginRequest", BeginBody), "BeginRequest", ok)
         /\ fnRes' = IF ok
                      THEN [fnRes EXCEPT !.pc = "pairs",
                                         !.ops = PairWrites(req.pairs, 0)]
                      ELSE [fnRes EXCEPT !.pc = "ret", !.err = ErrWrite]
    /\ UNCHANGED w

\* Request: c.conn.writePairs, the Write and WriteString calls up to the next
\* record; a failed write makes writePairs, and Request, return the error
RqPairs ==
    /\ fnRes.pc = "pairs"
    /\ LET a == BufioAbsorb(w.buf, fnRes.ops)
           buf1 == a[1]
           rest == a[2]
       IN IF rest = <<>>
          THEN /\ w' = [w EXCEPT !.buf = buf1]
               /\ fnRes' = [fnRes EXCEPT !.ops = <<>>,
                               !.pc = IF buf1 = <<>> THEN "pterm" ELSE "pflush"]
               /\ UNCHANGED <<wire, wlog>>
          ELSE LET n == maxWrite - BLen(buf1)
                   full == BCat(buf1, BTake(rest[1], n))
               IN \E ok \in BOOLEAN :
                    /\ ConnWrite(Rec("Params", full), "Params", ok)
                    /\ w' = [w EXCEPT !.buf = IF ok THEN <<>> ELSE full]
                    /\ fnRes' = IF ok
                                 THEN [fnRes EXCEPT
                                          !.ops = <<BDrop(rest[1], n)>> \o Tail(rest)]
                                 ELSE [fnRes EXCEPT !.pc = "ret", !.err = ErrWrite]

\* writePairs: w.Close(), Flush of the buffered bytes
RqPFlush ==
    /\ fnRes.pc = "pflush"
    /\ \E ok \in BOOLEAN : ConnWrite(Rec("Params", w.buf), "Params", ok)
    /\ w' = [w EXCEPT !.buf = <<>>]
    /\ fnRes' = [fnRes EXCEPT !.pc = "pterm"]

\* writePairs: w.Close(), the closing record; the result of Close is dropped
RqPTerm ==
    /\ fnRes.pc = "pterm"
    /\ \E ok \in BOOLEAN : ConnWrite(TermRec("Params"), "ParamsEnd", ok)
    /\ fnRes' = [fnRes EXCEPT !.pc = "stdin"]
    /\ UNCHANGED w

\* Request: if len(reqStr) > 0, c.conn.writeRecord(typeStdin, reqID, reqStr).
\* The receiver takes ContentLength bytes as the content of the record; the
\* bytes of reqStr beyond them follow the record (junk).
RqStdin ==
    /\ fnRes.pc = "stdin"
    /\ IF req.stdin = 0
       THEN /\ fnRes' = [fnRes EXCEPT !.pc = "read"]
            /\ UNCHANGED <<wire, wlog>>
       ELSE LET h == writeRecord("Stdin", 1, req.stdin).h
                body == Bytes("Stdin", 0, req.stdin)
            IN \E ok \in BOOLEAN :
                 /\ ConnWrite(Rec("Stdin", BTake(body, h.ContentLength)), "Stdin", ok)
                 /\ fnRes' = IF ok
                              THEN [fnRes EXCEPT !.pc = "read",
                                       !.junk = req.stdin - h.ContentLength]
                              ELSE [fnRes EXCEPT !.pc = "ret", !.err = ErrWrite]
    /\ UNCHANGED w

\* Request: one turn of the read loop
RqRead ==
    /\ fnRes.pc = "read"
    /\ \E r \in InRecs :
         /\ (Len(fnRes.got) + 1 >= MaxInRecs => EndsRequest(r))
         /\ fnRes' = [fnRes EXCEPT
                !.got = Append(@, r),
                !.retout = IF r.type = "Stdout" THEN @ \o r.content ELSE @,
                !.reterr = IF r.type = "Stderr" THEN @ \o r.content ELSE @,
                !.err = IF r.type = "ReadErr" THEN ErrRead ELSE @,
                !.pc = IF EndsRequest(r) THEN "ret" ELSE "read"]
    /\ UNCHANGED <<w, wire, wlog>>

NextRequest ==
    \/ (RqBegin /\ UNCHANGED <<req, dpc, ctx, rl, rdpc, wg, sup, pipes, oc, ec>>
                /\ UNCHANGED <<poolVars, idVars, serveVars, fnArg>>)
    \/ (RqPairs /\ UNCHANGED <<req, dpc, ctx, rl, rdpc, wg, sup, pipes, oc, ec>>
                /\ UNCHANGED <<poolVars, idVars, serveVars, fnArg>>)
    \/ (RqPFlush /\ UNCHANGED <<req, dpc, ctx, rl, rdpc, wg, sup, pipes, oc, ec>>
                 /\ UNCHANGED <<poolVars, idVars, serveVars, fnArg>>)
    \/ (RqPTerm /\ UNCHANGED <<req, dpc, ctx, rl, rdpc, wg, sup, pipes, oc, ec>>
                /\ UNCHANGED <<poolVars, idVars, serveVars, fnArg>>)
    \/ (RqStdin /\ UNCHANGED <<req, dpc, ctx, rl, rdpc, wg, sup, pipes, oc, ec>>
                /\ UNCHANGED <<poolVars, idVars, serveVars, fnArg>>)
    \/ (RqRead /\ UNCHANGED <<req, dpc, ctx, rl, rdpc, wg, sup, pipes, oc, ec>>
               /\ UNCHANGED <<poolVars, idVars, serveVars, fnArg>>)

InitSpecRequest == InitPool /\ IdPoolIdle /\ ServeIdle /\ InitRequest

SpecRequest == InitSpecRequest /\ [][NextRequest]_vars

\* ---- one client over several requests: c.conn and the read loops ----

\* requests started on the client
MaxReqs == 2

\* connections the connection factory hands out
MaxConns == 2

\* c.conn == nil
NilConn == 0

\* a read loop that was never started
NoLoop == [pc |-> "none", on |-> NilConn]

\* the client as SimpleClientFactory returns it: one connection, no request
InitConn ==
    /\ fnArg = 0
    /\ fnRes = [conn |-> 1, made |-> 1, closed |-> {}, n |-> 0,
                loop |-> [k \in 1..MaxReqs |-> NoLoop],
                rr |-> [k \in 1..MaxReqs |-> "none"],
                fired |-> [k \in 1..MaxReqs |-> FALSE]]

\* the caller of Do, CloseConn and NewConn acts between requests: the last
\* request's readResponse has returned (the supervisor closes the response
\* only after it)
OwnerFree ==
    IF fnRes.n = 0 THEN TRUE
    ELSE fnRes.rr[fnRes.n] \in {"done", "cancelled", "failed"}

\* Do: a nil connection fails the call; otherwise readResponse starts its read
\* loop and waits in the select
ConnDo ==
    /\ OwnerFree
    /\ fnRes.n < MaxReqs
    /\ LET k == fnRes.n + 1
       IN  fnRes' = IF fnRes.conn = NilConn
                    THEN [fnRes EXCEPT !.n = k, !.rr[k] = "failed"]
                    ELSE [fnRes EXCEPT !.n = k, !.rr[k] = "select",
                                       !.loop[k] = [pc |-> "eval", on |-> NilConn]]

\* read loop k evaluates c.conn.rwc at the top of an iteration: a nil c.conn
\* is a nil pointer dereference
LoopEval(k) ==
    /\ fnRes.loop[k].pc = "eval"
    /\ fnRes' = IF fnRes.conn = NilConn
                THEN [fnRes EXCEPT !.loop[k] = [pc |-> "panic", on |-> NilConn]]
                ELSE [fnRes EXCEPT !.loop[k] = [pc |-> "read", on |-> fnRes.conn]]

\* rec.read on the connection the loop took: a closed connection fails the
\* read; Stdout, Stderr and other records go on to the pipe write; EndRequest,
\* EOF and a read error leave the loop and close done
LoopRead(k) ==
    /\ fnRes.loop[k].pc = "read"
    /\ IF fnRes.loop[k].on \in fnRes.closed
       THEN fnRes' = [fnRes EXCEPT !.loop[k].pc = "exit"]
       ELSE \E more \in BOOLEAN :
              fnRes' = [fnRes EXCEPT !.loop[k].pc = IF more THEN "write" ELSE "exit"]

\* the pipe write of the record's content returns (the pipe's reader took it,
\* or the pipe is closed)
LoopWrite(k) ==
    /\ fnRes.loop[k].pc = "write"
    /\ fnRes' = [fnRes EXCEPT !.loop[k] = [pc |-> "eval", on |-> NilConn]]

\* the request's context fires
CtxFire(k) ==
    /\ fnRes.rr[k] = "select"
    /\ ~fnRes.fired[k]
    /\ fnRes' = [fnRes EXCEPT !.fired[k] = TRUE]

\* readResponse's select: case <-done
SelectDone(k) ==
    /\ fnRes.rr[k] = "select"
    /\ fnRes.loop[k].pc = "exit"
    /\ fnRes' = [fnRes EXCEPT !.rr[k] = "done"]

\* readResponse's select: case <-ctx.Done(); the read loop is left running
SelectCtx(k) ==
    /\ fnRes.rr[k] = "select"
    /\ fnRes.fired[k]
    /\ fnRes' = [fnRes EXCEPT !.rr[k] = "cancelled"]

\* CloseConn: nothing on a nil connection, else close it and set c.conn = nil
ClientCloseConn ==
    /\ OwnerFree
    /\ fnRes.conn # NilConn
    /\ fnRes' = [fnRes EXCEPT !.closed = @ \cup {fnRes.conn}, !.conn = NilConn]

\* NewConn: the factory's connection replaces c.conn, or its error leaves
\* c.conn as it was
ClientNewConn ==
    /\ OwnerFree
    /\ fnRes.made < MaxConns
    /\ \E ok \in BOOLEAN :
         fnRes' = IF ok
                  THEN [fnRes EXCEPT !.conn = fnRes.made + 1, !.made = @ + 1]
                  ELSE fnRes

NextConn ==
    \/ (ConnDo /\ UNCHANGED <<poolVars, idVars, doVars, serveVars, fnArg>>)
    \/ (\E k \in 1..MaxReqs : LoopEval(k)
          /\ UNCHANGED <<poolVars, idVars, doVars, serveVars, fnArg>>)
    \/ (\E k \in 1..MaxReqs : LoopRead(k)
          /\ UNCHANGED <<poolVars, idVars, doVars, serveVars, fnArg>>)
    \/ (\E k \in 1..MaxReqs : LoopWrite(k)
          /\ UNCHANGED <<poolVars, idVars, doVars, serveVars, fnArg>>)
    \/ (\E k \in 1..MaxReqs : CtxFire(k)
          /\ UNCHANGED <<poolVars, idVars, doVars, serveVars, fnArg>>)
    \/ (\E k \in 1..MaxReqs : SelectDone(k)
          /\ UNCHANGED <<poolVars, idVars, doVars, serveVars, fnArg>>)
    \/ (\E k \in 1..MaxReqs : SelectCtx(k)
          /\ UNCHANGED <<poolVars, idVars, doVars, serveVars, fnArg>>)
    \/ (ClientCloseConn /\ UNCHANGED <<poolVars, idVars, doVars, serveVars, fnArg>>)
    \/ (ClientNewConn /\ UNCHANGED <<poolVars, idVars, doVars, serveVars, fnArg>>)

InitSpecConn ==
    /\ InitPool
    /\ IdPoolIdle
    /\ DoIdle
    /\ ServeIdle
    /\ InitConn

SpecConn == InitSpecConn /\ [][NextConn]_vars

\* ---- conn.writeRecord called by several tasks at once ----

\* tasks that write records on the one connection
NumWriters == 2

\* the body lengths of the records a task writes, one after the other
WriterJobs == { <<5>>, <<0, 8>>, <<70000>> }

\* no task holds c.mutex
Unlocked == 0

\* c.h before the first record
ZeroHeader ==
    [Version |-> 0, Type |-> "", ID |-> 0, ContentLength |-> 0,
     PaddingLength |-> 0, Reserved |-> 0]

\* the record types the tasks write, by task
WriterType(t) == IF t % 2 = 1 THEN "Params" ELSE "Stdin"

\* a run of bytes in c.buf: the encoded header h, n bytes of task t's body,
\* or n bytes of pad
Piece(k, t, n, h) == [k |-> k, t |-> t, n |-> n, h |-> h]

\* buf.Write of n bytes: nothing is appended for n = 0
BufWrite(buf, piece) == IF piece.n = 0 THEN buf ELSE Append(buf, piece)

\* the bytes of the record of task t with a body of n bytes
RecordPieces(t, n) ==
    LET h == headerInit(WriterType(t), t, n)
    IN  BufWrite(BufWrite(<< Piece("h", t, HeaderLen, h) >>,
                          Piece("c", t, n, ZeroHeader)),
                 Piece("p", 0, h.PaddingLength, ZeroHeader))

\* the connection with its mutex, scratch buffer and header, the tasks before
\* their first call, nothing on the stream
InitLock ==
    /\ fnArg \in [1..NumWriters -> WriterJobs]
    /\ fnRes = [holder |-> Unlocked, buf |-> <<>>, h |-> ZeroHeader,
                pc |-> [t \in 1..NumWriters |-> "idle"],
                job |-> [t \in 1..NumWriters |-> 1],
                stream |-> <<>>]

\* the body length of the record task t is writing
JobLen(t) == fnArg[t][fnRes.job[t]]

\* task t calls writeRecord for its next record
WrCall(t) ==
    /\ fnRes.pc[t] = "idle"
    /\ fnRes.job[t] <= Len(fnArg[t])
    /\ fnRes' = [fnRes EXCEPT !.pc[t] = "lock"]

\* variant: c.mutex.Lock() does not wait for the holder
WrLock_NoWait(t) ==
    /\ fnRes.pc[t] = "lock"
    /\ fnRes' = [fnRes EXCEPT !.holder = t, !.pc[t] = "reset"]

\* c.mutex.Lock(): waits while another task holds the mutex
WrLock(t) ==
    /\ fnRes.pc[t] = "lock"
    /\ fnRes.holder = Unlocked
    /\ fnRes' = [fnRes EXCEPT !.holder = t, !.pc[t] = "reset"]

\* c.buf.Reset()
WrReset(t) ==
    /\ fnRes.pc[t] = "reset"
    /\ fnRes' = [fnRes EXCEPT !.buf = <<>>, !.pc[t] = "init"]

\* c.h.init(recType, reqID, len(b))
WrInit(t) ==
    /\ fnRes.pc[t] = "init"
    /\ fnRes' = [fnRes EXCEPT !.h = headerInit(WriterType(t), t, JobLen(t)),
                              !.pc[t] = "hdr"]

\* binary.Write(&c.buf, binary.BigEndian, c.h)
WrHeader(t) ==
    /\ fnRes.pc[t] = "hdr"
    /\ fnRes' = [fnRes EXCEPT
                   !.buf = BufWrite(@, Piece("h", fnRes.h.ID, HeaderLen, fnRes.h)),
                   !.pc[t] = "body"]

\* c.buf.Write(b)
WrBody(t) ==
    /\ fnRes.pc[t] = "body"
    /\ fnRes' = [fnRes EXCEPT
                   !.buf = BufWrite(@, Piece("c", t, JobLen(t), ZeroHeader)),
                   !.pc[t] = "pad"]

\* c.buf.Write(pad[:c.h.PaddingLength])
WrPad(t) ==
    /\ fnRes.pc[t] = "pad"
    /\ fnRes' = [fnRes EXCEPT
                   !.buf = BufWrite(@, Piece("p", 0, fnRes.h.PaddingLength, ZeroHeader)),
                   !.pc[t] = "write"]

\* c.rwc.Write(c.buf.Bytes()): all of the buffer reaches the stream, or the
\* write fails after the first run of bytes
WrWrite(t) ==
    /\ fnRes.pc[t] = "write"
    /\ \E ok \in BOOLEAN :
         fnRes' = [fnRes EXCEPT
                     !.stream = Append(@, [by |-> t, len |-> JobLen(t), ok |-> ok,
                                           bytes |-> IF ok \/ fnRes.buf = <<>>
                                                     THEN fnRes.buf
                                                     ELSE <<fnRes.buf[1]>>]),
                     !.pc[t] = "unlock"]

\* the deferred c.mutex.Unlock(); writeRecord returns
WrUnlock(t) ==
    /\ fnRes.pc[t] = "unlock"
    /\ fnRes' = [fnRes EXCEPT !.holder = Unlocked, !.pc[t] = "idle",
                              !.job[t] = @ + 1]

NextLock ==
    \/ (\E t \in 1..NumWriters : WrCall(t)
          /\ UNCHANGED <<poolVars, idVars, doVars, serveVars, fnArg>>)
    \/ (\E t \in 1..NumWriters : WrLock(t)
          /\ UNCHANGED <<poolVars, idVars, doVars, serveVars, fnArg>>)
    \/ (\E t \in 1..NumWriters : WrReset(t)
          /\ UNCHANGED <<poolVars, idVars, doVars, serveVars, fnArg>>)
    \/ (\E t \in 1..NumWriters : WrInit(t)
          /\ UNCHANGED <<poolVars, idVars, doVars, serveVars, fnArg>>)
    \/ (\E t \in 1..NumWriters : WrHeader(t)
          /\ UNCHANGED <<poolVars, idVars, doVars, serveVars, fnArg>>)
    \/ (\E t \in 1..NumWriters : WrBody(t)
          /\ UNCHANGED <<poolVars, idVars, doVars, serveVars, fnArg>>)
    \/ (\E t \in 1..NumWriters : WrPad(t)
          /\ UNCHANGED <<poolVars, idVars, doVars, serveVars, fnArg>>)
    \/ (\E t \in 1..NumWriters : WrWrite(t)
          /\ UNCHANGED <<poolVars, idVars, doVars, serveVars, fnArg>>)
    \/ (\E t \in 1..NumWriters : WrUnlock(t)
          /\ UNCHANGED <<poolVars, idVars, doVars, serveVars, fnArg>>)

InitSpecLock == InitPool /\ IdPoolIdle /\ DoIdle /\ ServeIdle /\ InitLock

SpecLock == InitSpecLock /\ [][NextLock]_vars

\* ---- ServeHTTP with its deferred Close ----

\* what h.newClient() returns: a client, an error, neither
ClientOutcomes == {"ok", "err", "nil"}

\* what h.requestHandler does: returns a response, returns an error, panics
HandlerOutcomes == {"resp", "err", "panic"}

\* the request before ServeHTTP's first statement: no client, the handler and
\* Close not called, WriteTo not called
InitHandler ==
    /\ InitServe
    /\ fnArg = 0
    /\ fnRes = [client |-> "none", handlers |-> 0, closes |-> 0, writeTo |-> "no"]

\* c, err := h.newClient(): on an error 502 and return, before the defer
\* statement is reached
HNewClient ==
    /\ hpc = "new"
    /\ \E out \in ClientOutcomes :
         IF out = "err"
         THEN hpc' = "returned" /\ oc' = HTTPError(oc, 502) /\ fnRes' = fnRes
         ELSE hpc' = "handler" /\ oc' = oc /\ fnRes' = [fnRes EXCEPT !.client = out]
    /\ UNCHANGED <<req, dpc, w, wire, wlog, ctx, rl, rdpc, wg, sup, pipes, ec>>
    /\ UNCHANGED <<stdoutIn, fnArg>>

\* variant: the error return of the request handler skips the Close
HHandler_NoDefer ==
    /\ hpc = "handler"
    /\ \E res \in HandlerOutcomes :
         /\ fnRes' = [fnRes EXCEPT !.handlers = @ + 1,
                                   !.writeTo = IF res = "resp" THEN "called" ELSE @]
         /\ CASE res = "resp" -> hpc' = "writeto" /\ oc' = [oc EXCEPT !.pc = "read"]
              [] res = "err" -> hpc' = "returned" /\ oc' = HTTPError(oc, 500)
              [] OTHER -> hpc' = "deferred" /\ oc' = oc
    /\ UNCHANGED <<req, dpc, w, wire, wlog, ctx, rl, rdpc, wg, sup, pipes, ec>>
    /\ UNCHANGED <<stdoutIn, fnArg>>

\* resp, err := h.requestHandler(c, NewRequest(r)): on an error 500 and
\* return, on a panic the function unwinds, otherwise resp.WriteTo is called;
\* a return and a panic both run the deferred function
HHandler ==
    /\ hpc = "handler"
    /\ \E res \in HandlerOutcomes :
         /\ fnRes' = [fnRes EXCEPT !.handlers = @ + 1,
                                   !.writeTo = IF res = "resp" THEN "called" ELSE @]
         /\ CASE res = "resp" -> hpc' = "writeto" /\ oc' = [oc EXCEPT !.pc = "read"]
              [] res = "err" -> hpc' = "deferred" /\ oc' = HTTPError(oc, 500)
              [] OTHER -> hpc' = "deferred" /\ oc' = oc
    /\ UNCHANGED <<req, dpc, w, wire, wlog, ctx, rl, rdpc, wg, sup, pipes, ec>>
    /\ UNCHANGED <<stdoutIn, fnArg>>

\* WriteTo has returned: on an error 500; ServeHTTP returns and the deferred
\* function runs
HWriteToReturn ==
    /\ hpc = "writeto"
    /\ oc.pc = "ret"
    /\ oc' = IF oc.err # NoErr THEN HTTPError(oc, 500) ELSE oc
    /\ hpc' = "deferred"
    /\ fnRes' = [fnRes EXCEPT !.writeTo = "returned"]
    /\ UNCHANGED <<req, dpc, w, wire, wlog, ctx, rl, rdpc, wg, sup, pipes, ec>>
    /\ UNCHANGED <<stdoutIn, fnArg>>

\* the deferred function: nothing for a nil client, else c.Close(), whose
\* error is only logged
HDeferred ==
    /\ hpc = "deferred"
    /\ fnRes' = IF fnRes.client = "nil" THEN fnRes
                ELSE [fnRes EXCEPT !.closes = @ + 1]
    /\ hpc' = "returned"
    /\ UNCHANGED <<req, dpc, w, wire, wlog, ctx, rl, rdpc, wg, sup, pipes, oc, ec>>
    /\ UNCHANGED <<stdoutIn, fnArg>>

NextHandler ==
    \/ (HNewClient /\ UNCHANGED <<poolVars, idVars>>)
    \/ (HHandler /\ UNCHANGED <<poolVars, idVars>>)
    \/ (ServeReadLine /\ UNCHANGED <<poolVars, idVars, codecVars>>)
    \/ (ServeReadEOF /\ UNCHANGED <<poolVars, idVars, codecVars>>)
    \/ (HWriteToReturn /\ UNCHANGED <<poolVars, idVars>>)
    \/ (HDeferred /\ UNCHANGED <<poolVars, idVars>>)

InitSpecHandler == InitPool /\ IdPoolIdle /\ DoIdle /\ InitHandler

SpecHandler == InitSpecHandler /\ [][NextHandler]_vars

\* ---- conn.writeRecord on every payload length ----

\* no result yet
NoResult == [h |-> <<>>, bytes |-> <<>>]

InitRecord ==
    /\ fnArg \in 0..maxWrite
    /\ fnRes = NoResult

\* c.writeRecord(typeStdin, 1, b) with len(b) = fnArg
ApplyWriteRecord ==
    /\ fnRes = NoResult
    /\ fnRes' = writeRecord("Stdin", 1, fnArg)
    /\ UNCHANGED fnArg

NextRecord == ApplyWriteRecord /\ UNCHANGED <<poolVars, idVars, doVars, serveVars>>

InitSpecRecord == InitPool /\ IdPoolIdle /\ DoIdle /\ ServeIdle /\ InitRecord

SpecRecord == InitSpecRecord /\ [][NextRecord]_vars

\* ---- encodeSize and readSize ----

\* the lengths tried: the short ones, the values around every power of two,
\* values with four different bytes, the largest
SizeInputs ==
    (0..300)
    \cup UNION { {2^k - 1, 2^k, 2^k + 1} : k \in 9..30 }
    \cup { 16909060, 2139062143, 2130706432, MaxSize - 1, MaxSize }

\* bytes that may follow an encoded length in the buffer
SizeSuffixes == { <<>>, <<200>>, <<0, 7, 255, 1>> }

InitSize ==
    /\ fnArg \in SizeInputs
    /\ fnRes = [pc |-> "encode", buf |-> <<>>, n |-> 0, size |-> 0, used |-> 0]

\* n := encodeSize(b, size)
ApplyEncodeSize ==
    /\ fnRes.pc = "encode"
    /\ fnRes' = [fnRes EXCEPT !.pc = "read", !.buf = encodeSizeBuf(fnArg),
                              !.n = encodeSize(fnArg)]
    /\ UNCHANGED fnArg

\* size, used := readSize(b) on the bytes written and what follows them
ApplyReadSize ==
    /\ fnRes.pc = "read"
    /\ \E rest \in SizeSuffixes :
         LET r == readSize(fnRes.buf \o rest)
         IN  fnRes' = [fnRes EXCEPT !.pc = "done", !.size = r[1], !.used = r[2]]
    /\ UNCHANGED fnArg

NextSize ==
    \/ (ApplyEncodeSize /\ UNCHANGED <<poolVars, idVars, doVars, serveVars>>)
    \/ (ApplyReadSize /\ UNCHANGED <<poolVars, idVars, doVars, serveVars>>)

InitSpecSize == InitPool /\ IdPoolIdle /\ DoIdle /\ ServeIdle /\ InitSize

SpecSize == InitSpecSize /\ [][NextSize]_vars

InitSpecServe == InitPool /\ IdPoolIdle /\ DoIdle /\ InitServe /\ CodecIdle

SpecServe == InitSpecServe /\ [][NextServe]_vars

\* The goroutines of the program are scheduled: a step that stays possible is
\* taken.  The steps that wait for the outside (a read of req.Stdin, a record
\* from the upstream, the cancellation) carry no such assumption.
InternalDo ==
    \/ (DoAlloc /\ UNCHANGED <<poolVars, serveVars, codecVars>>)
    \/ (DoStart /\ UNCHANGED <<poolVars, serveVars, codecVars>>)
    \/ (WBegin /\ UNCHANGED <<poolVars, serveVars, codecVars>>)
    \/ (WPairs /\ UNCHANGED <<poolVars, serveVars, codecVars>>)
    \/ (WPFlush /\ UNCHANGED <<poolVars, serveVars, codecVars>>)
    \/ (WPTerm /\ UNCHANGED <<poolVars, serveVars, codecVars>>)
    \/ (WSFlush /\ UNCHANGED <<poolVars, serveVars, codecVars>>)
    \/ (WSTerm /\ UNCHANGED <<poolVars, serveVars, codecVars>>)
    \/ (WAbort /\ UNCHANGED <<poolVars, serveVars, codecVars>>)
    \/ (WDone /\ UNCHANGED <<poolVars, serveVars, codecVars>>)
    \/ (WSendErr /\ UNCHANGED <<poolVars, serveVars, codecVars>>)
    \/ (ReadLoopWriteOut /\ UNCHANGED <<poolVars, serveVars, codecVars>>)
    \/ (ReadLoopWriteErr /\ UNCHANGED <<poolVars, serveVars, codecVars>>)
    \/ (ReaderDone /\ UNCHANGED <<poolVars, serveVars, codecVars>>)
    \/ (ReaderCancelled /\ UNCHANGED <<poolVars, serveVars, codecVars>>)
    \/ (ReaderSendErr /\ UNCHANGED <<poolVars, serveVars, codecVars>>)
    \/ (WaitAll /\ UNCHANGED <<poolVars, serveVars, codecVars>>)
    \/ (SupWriteErr /\ UNCHANGED <<poolVars, serveVars, codecVars>>)
    \/ (SupAllDone /\ UNCHANGED <<poolVars, serveVars, codecVars>>)
    \/ (SupRelease /\ UNCHANGED <<poolVars, serveVars, codecVars>>)
    \/ (SupClose /\ UNCHANGED <<poolVars, serveVars, codecVars>>)
    \/ (WriteResponseEOF /\ UNCHANGED <<poolVars, serveVars, codecVars>>)
    \/ (WriteErrorEOF /\ UNCHANGED <<poolVars, serveVars, codecVars>>)

FairDo == WF_vars(InternalDo)

FairSpecDo == InitFairDo /\ [][NextDo]_vars /\ FairDo

(***************************************************************************)
(* Claims                                                                  *)
(***************************************************************************)

\* PoolClients handed out by CreateClient and not yet closed
InFlight == {c \in Callers : cpc[c] = "holding"}

\* tasks that have pushed a slot token and not yet their PoolClient
Stocking ==
    (IF spc \in {"factory", "push"} THEN 1 ELSE 0)
    + Cardinality({p \in PCs : rt[p] = "push"})

\* C1 (as stated): stocked + in flight <= scale.
C1_StockPlusInFlight == Len(pool) + Cardinality(InFlight) <= Scale

\* C1 (amended): the PoolClients in the stock channel, together with those
\* whose slot token is pushed and that are about to be pushed into stock, are
\* at most scale; the PoolClients in flight are not counted.
C1_StockBounded == Len(pool) + Stocking <= Scale

\* C1 witness: the stock is full while a PoolClient is in flight
C1_Witness == Len(pool) = Scale /\ InFlight # {}

\* C10: a PoolClient.Close after the expiry time calls the wrapped
\* Client.Close once, pushes no slot token and starts no return task, and the
\* PoolClient is never in the stock channel (or with a consumer) again.
C10_ExpiredClose ==
    /\ [][\A c \in Callers :
            (cpc[c] = "holding" /\ cpc'[c] = "idle" /\ now > pcExpires[cClient[c]])
            => /\ pcCloses'[cClient[c]] = pcCloses[cClient[c]] + 1
               /\ poolTag' = poolTag
               /\ pool' = pool
               /\ rt'[cClient[c]] = "none"]_vars
    /\ [](\A p \in PCs :
            pcCloses[p] > 0
            => /\ pcCloses[p] = 1
               /\ rt[p] = "none"
               /\ \A i \in 1..Len(pool) : pool[i] # p
               /\ \A c \in Callers : cClient[c] # p)

\* an expired PoolClient has been closed by PoolClient.Close
C10_Witness == \E p \in PCs : pcCloses[p] = 1 /\ now > pcExpires[p]

\* ids held by users of the pool
IdsOutstanding == {idHeld[c] : c \in IdCallers} \ {NoID}

\* C2 (as stated): Alloc never returns an id that is outstanding, that is, no
\* two users of one idPool hold the same id at the same time.
C2_AllocDistinct ==
    \A c1, c2 \in IdCallers : (c1 # c2 /\ idHeld[c1] # NoID) => idHeld[c1] # idHeld[c2]

\* C3 (as stated): newIDPool(limit) hands out only ids in [1, limit] (limit 0
\* or > 65535 meaning 65535); the initializer sends each of 1..limit once, in
\* order, and stops.
C3_InitOnce ==
    /\ idMaxID = (IF idLimit = 0 \/ idLimit > Uint16Max THEN Uint16Max ELSE idLimit)
    /\ idCount <= idMaxID
    /\ (~idInitDone /\ idCount < idMaxID) => idI = idCount + 1
    /\ idInitDone => idCount = idMaxID
    /\ (idCount = idMaxID) => (idInitDone \/ ~IdLoopCond(idI, idMaxID))

\* ---- one request ----

Range(q) == {q[i] : i \in 1..Len(q)}

\* the records of one type on the connection, in order
RecsOf(type) == SelectSeq(wire, LAMBDA r : r.type = type)

\* the content bytes of a sequence of records, in order
RECURSIVE Concat(_)
Concat(rs) == IF rs = <<>> THEN <<>> ELSE BCat(rs[1].content, Concat(Tail(rs)))

StreamRank(type) ==
    CASE type = "BeginRequest" -> 1
      [] type = "Params" -> 2
      [] type = "Stdin" -> 3
      [] OTHER -> 0

\* the writer task has returned from writeRequest
WriterReturned == w.pc \in {"ret", "done"}

\* C5: the records of one request are on the connection in the order
\* BeginRequest, Params records, Stdin records; the content of the Params
\* records and of the Stdin records is a prefix of the encoded pairs and of
\* the body, in order, and all of it when no write failed.
C5_RecordOrder ==
    /\ \A i, j \in 1..Len(wire) :
         (i < j /\ StreamRank(wire[i].type) > 0 /\ StreamRank(wire[j].type) > 0)
           => StreamRank(wire[i].type) <= StreamRank(wire[j].type)
    /\ Len(RecsOf("BeginRequest")) <= 1
    /\ \A i \in 1..Len(wire) :
         StreamRank(wire[i].type) > 1 => wire[1].type = "BeginRequest"
    /\ LET ps == Concat(RecsOf("Params"))
           ss == Concat(RecsOf("Stdin"))
       IN /\ ps = Bytes("Params", 0, BLen(ps))
          /\ BLen(ps) <= PairsLen(req.pairs)
          /\ ss = Bytes("Stdin", 0, BLen(ss))
          /\ BLen(ss) <= w.off
          /\ (WriterReturned /\ w.err = NoErr /\ wlog.failed = {})
               => /\ BLen(ps) = PairsLen(req.pairs)
                  /\ (req.stdin # NoStdin => BLen(ss) = req.stdin)

\* a request whose Params and Stdin both took more than one read or record
C5_Witness ==
    /\ w.pc = "done"
    /\ wlog.failed = {}
    /\ Len(RecsOf("Params")) = 3
    /\ Len(RecsOf("Stdin")) = 2
    /\ w.off > StdinChunk

\* writePairs has closed its stream writer: every pair was handed to it
ParamsClosed ==
    /\ w.pc \in {"sread", "sflush", "sterm", "abort", "ret", "done"}
    /\ w.ops = <<>>
    /\ "BeginRequest" \notin wlog.failed

\* writeRequest has closed the stream writer of req.Stdin
StdinClosed ==
    /\ w.pc \in {"abort", "ret", "done"}
    /\ w.ops = <<>>
    /\ "BeginRequest" \notin wlog.failed
    /\ req.stdin # NoStdin

\* positions of the zero-length records in a sequence of records
ZeroLength(rs) == {i \in 1..Len(rs) : rs[i].content = <<>>}

\* C6: a Params or Stdin stream has at most one zero-length record, it is the
\* last record of its type, and a closed stream has exactly one unless the
\* connection refused it; also for a stream without content.
C6_OneTerminator ==
    /\ \A t \in {"Params", "Stdin"} :
         /\ Cardinality(ZeroLength(RecsOf(t))) <= 1
         /\ \A i \in ZeroLength(RecsOf(t)) : i = Len(RecsOf(t))
    /\ (ParamsClosed /\ "ParamsEnd" \notin wlog.failed)
         => Cardinality(ZeroLength(RecsOf("Params"))) = 1
    /\ (StdinClosed /\ "StdinEnd" \notin wlog.failed)
         => Cardinality(ZeroLength(RecsOf("Stdin"))) = 1

\* an empty Stdin stream closed after a Params stream of two records
C6_Witness ==
    /\ w.pc = "done"
    /\ req.stdin = 0
    /\ Len(RecsOf("Stdin")) = 1
    /\ Len(RecsOf("Params")) = 2
    /\ wlog.failed = {}

\* a write of writeRequest to the connection failed
WriteFailed ==
    wlog.failed \cap {"BeginRequest", "Params", "ParamsEnd", "Stdin", "StdinEnd"} # {}

\* C7: when a write of writeRequest to the connection has failed and the
\* supervisor has ended, an AbortRequest was attempted, the write error is in
\* what the stderr consumer received, and the request id is released.
C7_WriteFailureReported ==
    (sup.pc = "exit" /\ WriteFailed)
      => /\ wlog.aborts >= 1
         /\ ErrWrite \in Range(ec.log)
         /\ idHeld[1] = NoID

\* C8: when reading a record failed with an error other than EOF, the read
\* loop stops, and once the supervisor has ended the read error is in what
\* the stderr consumer received.
C8_ReadFailureReported ==
    rl.end = "err"
      => /\ rl.pc = "exit"
         /\ (sup.pc = "exit" => ErrRead \in Range(ec.log))

\* the writer task and the reader task have finished
BothFinished == w.pc = "done" /\ rdpc \in {"done", "done_err"}

\* C4: a cancellation after BeginRequest was written and while the read loop
\* runs leads to WriteTo returning with "timeout or canceled" in the bytes
\* given to the error writer.
C4_CancelCompletes ==
    ctx.mid ~> (WriteToReturned /\ ErrTimeout \in Range(ec.log))

\* C9: the pipes are closed only after both tasks finished and the id was
\* released; Do returns an error only for a closed connection, before any
\* task starts; the errors of the tasks are in what the stderr consumer
\* received; and once both tasks have finished the pipes get closed and both
\* consumers return.
C9_Supervisor ==
    /\ [](pipes.outClosed = pipes.errClosed)
    /\ [](pipes.outClosed => (BothFinished /\ idHeld[1] = NoID))
    /\ [](dpc = "failed" => (req.connNil /\ w.pc = "idle" /\ rdpc = "idle"))
    /\ [](dpc = "started" => ~req.connNil)
    /\ []((sup.pc = "exit" /\ w.err # NoErr) => w.err \in Range(ec.log))
    /\ []((sup.pc = "exit" /\ rdpc = "done_err") => ErrTimeout \in Range(ec.log))
    /\ (BothFinished ~> (pipes.outClosed /\ pipes.errClosed /\ WriteToReturned))

\* both tasks failed, both errors reached the stderr consumer, WriteTo returned
C9_Witness ==
    /\ WriteToReturned
    /\ pipes.outClosed
    /\ idHeld[1] = NoID
    /\ ErrWrite \in Range(ec.log)
    /\ ErrTimeout \in Range(ec.log)

\* ---- client pool: return, factory outcomes, dial failures ----

\* C11: the return task of a PoolClient closed before its expiry does, in this
\* order, CloseConn (the client has no connection afterwards), one push of a
\* slot token, one push of the PoolClient into stock; and a client without a
\* connection gets one only from the factory that builds it or from the
\* NewConn of the CreateClient that took it from stock.
C11_ReturnOrder ==
    [][\A p \in PCs :
         /\ (rt[p] = "none" /\ rt'[p] # "none")
              => (rt'[p] = "closeconn" /\ now <= pcExpires[p]
                  /\ poolTag' = poolTag /\ pool' = pool)
         /\ (rt[p] = "closeconn" /\ rt'[p] # "closeconn")
              => (rt'[p] = "tag" /\ ~pcConn'[p] /\ poolTag' = poolTag /\ pool' = pool)
         /\ (rt[p] = "tag" /\ rt'[p] # "tag")
              => (rt'[p] = "push" /\ ~pcConn'[p]
                  /\ poolTag' = Append(poolTag, 1) /\ pool' = pool)
         /\ (rt[p] = "push" /\ rt'[p] # "push")
              => (rt'[p] = "none" /\ ~pcConn'[p]
                  /\ poolTag' = poolTag /\ pool' = Append(pool, p))
         /\ (~pcConn[p] /\ pcConn'[p])
              => \/ (nextPC' = p /\ nextPC = p - 1)
                 \/ \E c \in Callers : cpc[c] = "newconn" /\ cClient[c] = p
      ]_vars

\* a PoolClient is back in stock behind a younger one (the stocker pushes in
\* the order it builds), without a connection, its return task ended
C11_Witness ==
    \E i, j \in 1..Len(pool) :
      /\ i < j
      /\ pool[i] > pool[j]
      /\ ~pcConn[pool[j]]
      /\ pcErr[pool[j]] = "none"
      /\ rt[pool[j]] = "none"

\* C12 (as stated): whatever the factory returned, a CreateClient that took a
\* PoolClient from stock goes on to take exactly one slot token and returns
\* the error the PoolClient carries, or the PoolClient when it carries none.
C12_CreateClientOutcome ==
    /\ [][\A c \in Callers :
            /\ (cpc[c] = "newconn" /\ cpc'[c] # "newconn") => cpc'[c] = "untag"
            /\ (cpc[c] = "untag" /\ cpc'[c] # "untag")
                 => /\ poolTag' = Tail(poolTag)
                    /\ pool' = pool
                    /\ cpc'[c] = IF pcErr[cClient[c]] = "none" THEN "holding" ELSE "error"
         ]_vars
    /\ [](\A c \in Callers : cpc[c] # "panic")

\* C13 (as stated): a PoolClient built from a failed dial of the factory
\* carries the error, and no CreateClient returns a PoolClient whose NewConn
\* dial failed.
C13_DialFailureReturned ==
    /\ \A p \in PCs : (p <= nextPC /\ pcErr[p] = "nil") => ~pcConn[p]
    /\ \A c \in Callers : cpc[c] = "holding" => cDial[c] # "failed"

\* C14: for one HTTP request served by ServeHTTP, WriteHeader is called on the
\* http.ResponseWriter exactly once on every path, and the step that handles
\* an error of WriteTo issues the 500 exactly when no header was written before
C14_HeaderOnce ==
    /\ [](oc.nstatus <= 1)
    /\ [](hpc = "returned" => oc.nstatus = 1)
    /\ [][(hpc = "writeto" /\ hpc' = "returned" /\ oc.err # NoErr)
            => (oc'.nstatus = oc.nstatus + 1 <=> oc.nstatus = 0)]_vars

\* the errors writeResponse reports for a malformed header block
HeaderErrors ==
    { "long header line from subprocess", "bogus header line",
      "bogus status (short)", "bogus status", "no headers",
      "missing required Content-Type in headers" }

\* C15: when writeResponse ends on a malformed header block of any kind, it has
\* written status 500 to the HTTP writer (and WriteTo returns that error)
C15_Malformed500 ==
    (oc.pc = "ret" /\ oc.err \in HeaderErrors /\ hpc = "writeto")
        => (oc.status = 500 /\ oc.nstatus = 1)

\* C15, further Stdout records: a state of one request (reachable under
\* SpecDo) where writeResponse has returned on a malformed line and the read
\* loop holds a further Stdout record: its write to the stdout pipe, and with
\* it writeError and WriteTo, wait until the supervisor closes the pipes
C15_FurtherStdoutBlocked ==
    /\ oc.pc = "ret" /\ oc.err = "bogus header line"
    /\ rl.pc = "wout" /\ ~pipes.outClosed /\ ec.pc = "read"

\* number of Stderr records of the upstream that writeError has copied
StderrCopied == Cardinality({i \in 1..Len(ec.log) : <<ec.log[i]>> = StderrText})

BlankAt == {i \in 1..Len(stdoutIn) : stdoutIn[i].t = "blank"}

HeaderBlock ==
    SubSeq(stdoutIn, 1, (CHOOSE i \in BlankAt : \A j \in BlankAt : i <= j) - 1)

\* header names are case-insensitive
IsStatusLine(l) == CanonicalKey(l.name) = "Status"

IsOtherLine(l) == ~IsStatusLine(l)

\* the block is made of header lines only and its Status values are numeric
WellTerminated ==
    /\ BlankAt # {}
    /\ HeaderBlock # <<>>
    /\ \A i \in 1..Len(HeaderBlock) :
         /\ HeaderBlock[i].t = "hdr"
         /\ IsStatusLine(HeaderBlock[i]) =>
              (/\ Len(HeaderBlock[i].val) >= 3
               /\ Atoi(SubSeq(HeaderBlock[i].val, 1, 3)).ok)

StatusInts ==
    { Atoi(SubSeq(HeaderBlock[i].val, 1, 3)).n :
        i \in {j \in 1..Len(HeaderBlock) : IsStatusLine(HeaderBlock[j])} }

HasHeader(n) ==
    \E i \in 1..Len(HeaderBlock) :
        /\ CanonicalKey(HeaderBlock[i].name) = n
        /\ HeaderBlock[i].val # <<>>

OtherHeaders ==
    LET o == SelectSeq(HeaderBlock, IsOtherLine)
    IN  [i \in 1..Len(o) |-> <<CanonicalKey(o[i].name), o[i].val>>]

\* C17: for a well-terminated header block the status written is the integer
\* of the first 3 characters of a Status value when there is a Status header,
\* otherwise 302 with a non-empty Location, otherwise 500 and `missing required
\* Content-Type` without a Content-Type, otherwise 200; the response headers
\* are the other headers in order, duplicates kept, and never Status
C17_StatusRule ==
    (hpc = "writeto" /\ WellTerminated /\ oc.nread >= Len(HeaderBlock) + 1)
      => /\ oc.nstatus = 1
         /\ IF StatusInts # {} THEN oc.status \in StatusInts
            ELSE IF HasHeader("Location") THEN oc.status = 302
            ELSE IF ~HasHeader("Content-Type")
                 THEN /\ oc.status = 500
                      /\ oc.err = "missing required Content-Type in headers"
            ELSE oc.status = 200
         /\ (oc.status # 500 => oc.out = OtherHeaders)
         /\ \A i \in 1..Len(oc.out) : oc.out[i][1] # "Status"

\* C18: Do on a client whose connection is nil returns `client connection has
\* been closed`, puts no record on a connection and starts no writer, reader
\* or supervisor task (and Do on a client with a connection returns no error)
C18_NilConnDo ==
    /\ (req.connNil /\ dpc \notin {"alloc", "check"})
          => /\ DoErr = ErrClosedConn
             /\ wire = <<>> /\ wlog = [failed |-> {}, aborts |-> 0]
             /\ w.pc = "idle" /\ rl.pc = "idle" /\ rdpc = "idle"
             /\ sup.pc = "idle" /\ wg.n = 0
             /\ oc.pc = "idle" /\ ec.pc = "idle"
    /\ ~req.connNil => DoErr = NoErr

\* a Do on a client without connection has returned
C18_Witness == req.connNil /\ dpc = "failed" /\ DoErr = ErrClosedConn

\* C19: for every payload length L in 0..65535 writeRecord emits an 8-byte
\* header with version 1, ContentLength L and PaddingLength (-L) mod 8, then
\* exactly L content bytes and PaddingLength padding bytes; ContentLength +
\* PaddingLength is a multiple of 8
C19_RecordLayout ==
    fnRes # NoResult =>
        LET h == fnRes.h
            b == fnRes.bytes
        IN  /\ h.Version = 1
            /\ h.ContentLength = fnArg
            /\ h.PaddingLength \in 0..7
            /\ (h.PaddingLength + fnArg) % 8 = 0
            /\ BLen(b) = 8 + fnArg + h.PaddingLength
            /\ BTake(b, 8) = Bytes("header", 0, 8)
            /\ BTake(BDrop(b, 8), fnArg) = Bytes("content", 0, fnArg)
            /\ BDrop(b, 8 + fnArg) = Bytes("pad", 0, h.PaddingLength)

\* the largest record body, which needs one byte of padding
C19_Witness ==
    /\ fnArg = 65535 /\ fnRes # NoResult
    /\ fnRes.h.ContentLength = 65535 /\ fnRes.h.PaddingLength = 1

\* C20: for the lengths n up to 2^31-1, encodeSize writes 1 byte when n <= 127
\* and otherwise 4 bytes with the top bit of the first byte set, and readSize
\* on the bytes written returns n and the number of bytes written
C20_SizeRoundTrip ==
    /\ fnRes.pc # "encode" =>
         /\ Len(fnRes.buf) = fnRes.n
         /\ fnRes.n = IF fnArg <= 127 THEN 1 ELSE 4
         /\ (fnArg > 127 => fnRes.buf[1] >= 128)
         /\ (fnArg <= 127 => fnRes.buf[1] < 128)
         /\ \A i \in 1..Len(fnRes.buf) : fnRes.buf[i] \in 0..255
    /\ fnRes.pc = "done" => (fnRes.size = fnArg /\ fnRes.used = fnRes.n)

\* the largest length and the first four-byte length have been decoded
C20_Witness ==
    /\ fnRes.pc = "done" /\ fnArg \in {128, 2147483647}
    /\ fnRes.n = 4 /\ fnRes.size = fnArg

\* C21: a Stdin body of N bytes, read in chunks of at most 1,024 bytes and
\* written without failure, is on the connection as floor(N/65535) records of
\* 65,535 bytes, one record of N mod 65535 bytes when that is not zero, and one
\* empty record; the contents concatenated are the body
C21_StdinRecords ==
    (WriterReturned /\ w.err = NoErr /\ wlog.failed = {} /\ req.stdin # NoStdin)
      => LET rs == RecsOf("Stdin")
             full == req.stdin \div 65535
             rem == req.stdin % 65535
             k == full + (IF rem > 0 THEN 1 ELSE 0)
         IN  /\ Len(rs) = k + 1
             /\ \A i \in 1..full : BLen(rs[i].content) = 65535
             /\ (rem > 0 => BLen(rs[k].content) = rem)
             /\ rs[k + 1].content = <<>>
             /\ Concat(rs) = Bytes("Stdin", 0, req.stdin)

\* the body of 200,000 bytes went out as 65,535, 65,535, 65,535, 3,395 and an
\* empty record
C21_Witness ==
    /\ WriterReturned /\ w.err = NoErr /\ req.stdin = 200000
    /\ LET rs == RecsOf("Stdin")
       IN  /\ Len(rs) = 5
           /\ BLen(rs[1].content) = 65535 /\ BLen(rs[2].content) = 65535
           /\ BLen(rs[3].content) = 65535 /\ BLen(rs[4].content) = 3395
           /\ rs[5].content = <<>>

\* the contents of the records of one type in a sequence of records, in order
RECURSIVE ContentsOf(_, _)
ContentsOf(rs, type) ==
    IF rs = <<>> THEN <<>>
    ELSE (IF rs[1].type = type THEN rs[1].content ELSE <<>>)
         \o ContentsOf(Tail(rs), type)

\* C22: Client.Request, when no write fails, has sent BeginRequest, the Params
\* stream with its closing record and, for a non-empty reqStr, the Stdin data;
\* it reads up to the first EndRequest, EOF or read error, returns the Stdout
\* contents in order as retout and the Stderr contents as reterr, and reports
\* no error for EndRequest and EOF
C22_Request ==
    (fnRes.pc = "ret" /\ wlog.failed = {})
      => /\ wire[1].type = "BeginRequest"
         /\ Len(RecsOf("BeginRequest")) = 1
         /\ Concat(RecsOf("Params")) = Bytes("Params", 0, PairsLen(req.pairs))
         /\ RecsOf("Params")[Len(RecsOf("Params"))].content = <<>>
         /\ Concat(RecsOf("Stdin")) = Bytes("Stdin", 0, req.stdin)
         /\ fnRes.junk = 0
         /\ fnRes.got # <<>>
         /\ \A i \in 1..Len(fnRes.got) :
               EndsRequest(fnRes.got[i]) <=> i = Len(fnRes.got)
         /\ fnRes.retout = ContentsOf(fnRes.got, "Stdout")
         /\ fnRes.reterr = ContentsOf(fnRes.got, "Stderr")
         /\ (fnRes.err = NoErr
               <=> fnRes.got[Len(fnRes.got)].type \in {"EndRequest", "EOF"})


\* C23: at any instant at most one read loop reads from a connection of the
\* client, over any sequence of requests, cancelled ones, CloseConn and
\* NewConn included, and no read loop dereferences a connection that
\* CloseConn has set to nil
C23_OneReader ==
    /\ \A g \in 1..MaxConns :
         Cardinality({k \in 1..MaxReqs : /\ fnRes.loop[k].pc = "read"
                                        /\ fnRes.loop[k].on = g}) <= 1
    /\ \A k \in 1..MaxReqs : fnRes.loop[k].pc # "panic"

\* C23, first half alone: never two read loops in rec.read on one connection
C23_NoTwoReaders ==
    \A g \in 1..MaxConns :
      Cardinality({k \in 1..MaxReqs : /\ fnRes.loop[k].pc = "read"
                                     /\ fnRes.loop[k].on = g}) <= 1

\* C23, second half alone: no read loop dereferences a nil c.conn
C23_NoNilDeref == \A k \in 1..MaxReqs : fnRes.loop[k].pc # "panic"


\* C24: once readResponse has returned "timeout or canceled", the read loop
\* reads no further record from the connection and writes no further Stdout
\* or Stderr content of the request into the pipes
C24_ReaderStops ==
    [][ (rdpc \in {"send", "done_err"})
          => /\ rl'.n = rl.n
             /\ ((rl.pc = "wout" /\ rl'.pc = "read") => pipes.outClosed)
             /\ ((rl.pc = "werr" /\ rl'.pc = "read") => pipes.errClosed) ]_vars

\* C24, the reading alone: no record is read after the cancelled return
C24_NoFurtherRead ==
    [][ (rdpc \in {"send", "done_err"}) => rl'.n = rl.n ]_vars

\* C24, the pipes alone: no content is written after the cancelled return
C24_NoFurtherWrite ==
    [][ (rdpc \in {"send", "done_err"})
          => /\ ((rl.pc = "wout" /\ rl'.pc = "read") => pipes.outClosed)
             /\ ((rl.pc = "werr" /\ rl'.pc = "read") => pipes.errClosed) ]_vars


\* the tasks inside writeRecord's locked region
InWriteRecord ==
    {t \in 1..NumWriters :
       fnRes.pc[t] \in {"reset", "init", "hdr", "body", "pad", "write", "unlock"}}

\* C25: with several tasks in writeRecord on one connection, every write to
\* the stream carries the header, content and padding of one record of one
\* task and nothing else (or the start of it when the write fails), and the
\* scratch buffer and header are touched only by the task holding the mutex
C25_NoInterleave ==
    /\ \A i \in 1..Len(fnRes.stream) :
         LET e == fnRes.stream[i]
             r == RecordPieces(e.by, e.len)
         IN  e.bytes = IF e.ok THEN r ELSE <<r[1]>>
    /\ Cardinality(InWriteRecord) <= 1
    /\ \A t \in InWriteRecord : fnRes.holder = t

\* a record of one task is on the stream, the other task holds the mutex with
\* its whole record in the buffer, and the first task waits in Lock again
C25_Witness ==
    /\ Len(fnRes.stream) >= 1
    /\ fnRes.stream[1].by = 1
    /\ fnRes.holder = 2
    /\ fnRes.pc[2] = "write"
    /\ fnRes.pc[1] = "lock"
    /\ JobLen(2) = 70000


\* every id of the pool is held by a caller
AllOutstanding == \A id \in 1..idMaxID : \E c \in IdCallers : idHeld[c] = id

\* a caller's Alloc, served by the initializer or by a Release goroutine
IdAlloc(c) == IdAllocFromInit(c) \/ IdAllocFromRelease(c)

\* C26: Alloc does not return while every id of the pool is outstanding, it
\* can return as soon as a released id is pending, and Release returns to
\* its caller at once whether or not an Alloc is waiting
C26_AllocBlocks ==
    /\ AllOutstanding => \A c \in IdCallers : ~ENABLED IdAlloc(c)
    /\ \A c \in IdCallers :
         (idHeld[c] = NoID /\ idAllocs < MaxAllocs /\ idRel # EmptyBag)
           => ENABLED IdAllocFromRelease(c)
    /\ \A c \in IdCallers : (idHeld[c] # NoID) => ENABLED IdRelease(c)

\* C26 for the pools whose largest id is below the largest value of the id type
C26_AllocBlocksBelowTop == (idMaxID < idTop) => C26_AllocBlocks


\* C27: every step of the read loop: a record read is a Stdout record, whose
\* content is the next thing written to the stdout pipe, a Stderr record,
\* whose content is the next thing written to the stderr pipe, a record of
\* another type, for which the diagnostic is written to the stderr pipe, or
\* EndRequest or a read error, which end the loop; after each write the
\* loop reads again, and the request id of the record plays no part
C27_ReadLoopOrder ==
    [][ /\ (rl.pc = "read" /\ rl' # rl)
             => \/ rl'.pc = "wout" /\ rl'.msg \in StdoutContents /\ rl'.n = rl.n + 1
                \/ /\ rl'.pc = "werr" /\ rl'.n = rl.n + 1
                   /\ rl'.text \in {StderrText, <<ErrUnexpected>>}
                \/ /\ rl'.pc = "exit" /\ rl'.done
                   /\ rl'.end \in {"end", "eof", "err"}
        /\ (rl.pc = "wout" /\ rl' # rl)
             => /\ rl'.pc = "read" /\ rl'.n = rl.n
                /\ \/ pipes.outClosed /\ oc' = oc
                   \/ \E wok \in BOOLEAN : oc' = ParseLines(oc, rl.msg, wok)
        /\ (rl.pc = "werr" /\ rl' # rl)
             => /\ rl'.pc = "read" /\ rl'.n = rl.n
                /\ \/ pipes.errClosed /\ ec' = ec
                   \/ ec'.log = ec.log \o rl.text
        /\ (rl.pc = "exit") => rl' = rl
        /\ (oc'.nread # oc.nread) => rl.pc = "wout"
      ]_vars

\* a Stdout record was delivered to the stdout pipe, then a record of another
\* type put the diagnostic into the stderr pipe, and the loop reads again
C27_Witness ==
    /\ rl.n = 2
    /\ rl.pc = "read"
    /\ oc.nread = 3
    /\ ErrUnexpected \in Range(ec.log)
    /\ ~ctx.done


\* C28: an id allocated by Do is released once no task of the request is left
\* running, on the path where Do fails on a nil connection as on the path
\* where the writer and the reader have both finished
C28_IdReleased ==
    ((dpc = "failed" \/ BothFinished) /\ idHeld[1] # NoID) ~> (idHeld[1] = NoID)

\* C28 on the path where Do started its tasks
C28_IdReleasedStarted ==
    (BothFinished /\ idHeld[1] # NoID) ~> (idHeld[1] = NoID)

\* C28 on the nil-connection path, as a state predicate: Do has returned its
\* error and the id is back in the pool
C28_IdReleasedNil == (dpc = "failed") => (idHeld[1] = NoID)


\* CreateClient calls that took a PoolClient and have not drained a token (a
\* call that panicked in NewConn never will)
Draining == {c \in Callers : cpc[c] \in {"newconn", "untag", "panic"}}

\* C29: the tokens in the slot channel are as many as the PoolClients in
\* stock, plus the stocker and return tasks between their token push and
\* their stock push, plus the CreateClient calls between their take and
\* their drain; so the stock push after a token push finds room and the
\* drain finds a token
C29_TokenCount ==
    /\ Len(poolTag) = Len(pool) + Stocking + Cardinality(Draining)
    /\ (spc = "push") => Len(pool) < PoolCap
    /\ \A p \in PCs : (rt[p] = "push") => Len(pool) < PoolCap
    /\ \A c \in Callers : (cpc[c] = "untag") => Len(poolTag) > 0

\* the slot channel is full with an empty stock: one token belongs to a
\* return task about to push, the other to a CreateClient call about to drain
C29_Witness ==
    /\ Len(poolTag) = Scale
    /\ Len(pool) = 0
    /\ \E p \in PCs : rt[p] = "push"
    /\ \E c \in Callers : cpc[c] = "untag"


\* the stocker waits for room in the slot channel, the stock is empty, and no
\* return task and no CreateClient call is at a step it can take: a caller
\* of CreateClient waits for ever
AllBlocked ==
    /\ spc = "tag"
    /\ Len(poolTag) = PoolTagCap
    /\ pool = <<>>
    /\ \A p \in PCs : rt[p] \in {"none", "tag"}
    /\ \A c \in Callers : cpc[c] \notin {"newconn", "untag"}

\* C30: under fair scheduling every CreateClient call that has taken its
\* PoolClient returns, and the pool never reaches a state where the stocker,
\* the return tasks and the callers are all blocked
C30_CreateClientReturns ==
    /\ \A c \in Callers :
         (cpc[c] = "newconn") ~> (cpc[c] \in {"holding", "error"})
    /\ []~AllBlocked

\* C30 apart from the PoolClients built without a client: the calls that took
\* any other PoolClient return, and without a panicked call the pool is
\* never blocked
C30_ReturnsUnlessNilClient ==
    /\ \A c \in Callers :
         (cpc[c] = "newconn" /\ pcErr[cClient[c]] # "nil")
            ~> (cpc[c] \in {"holding", "error"})
    /\ []((\A c \in Callers : cpc[c] # "panic") => ~AllBlocked)


\* the consumers that have PoolClient p: taken by their CreateClient call, or
\* returned to them and not yet closed
UsersOf(p) ==
    {c \in Callers : cClient[c] = p /\ cpc[c] \in {"newconn", "untag", "holding"}}

\* the places PoolClient p is in at once
Places(p) ==
    Cardinality({i \in 1..Len(pool) : pool[i] = p})
    + Cardinality(UsersOf(p))
    + (IF rt[p] # "none" THEN 1 ELSE 0)
    + (IF sClient = p THEN 1 ELSE 0)

\* where PoolClient p is
Loc(p) ==
    CASE \E i \in 1..Len(pool) : pool[i] = p -> "stock"
      [] UsersOf(p) # {} -> "use"
      [] rt[p] # "none" -> "return"
      [] sClient = p -> "stocker"
      [] pcCloses[p] > 0 -> "closed"
      [] p > nextPC -> "unbuilt"
      [] OTHER -> "lost"

\* the moves of a PoolClient: built, stocked, handed out, then closed after
\* expiry, or closed before expiry and stocked again by its return task, or
\* dropped by a CreateClient call that returns an error or panics
LocMoves ==
    { <<"unbuilt", "stocker">>, <<"stocker", "stock">>, <<"stock", "use">>,
      <<"use", "return">>, <<"use", "closed">>, <<"return", "stock">>,
      <<"use", "lost">> }

\* C31: with one Close per PoolClient received, a PoolClient is in one place
\* at a time (one consumer, or the stock, or its return task), and it goes
\* from a consumer back into the stock only through one Close before expiry
\* and the return task that Close starts
C31_OneHolder ==
    /\ [](\A p \in PCs : Places(p) <= 1)
    /\ [][\A p \in PCs :
            LET a == Loc(p)
                b == Loc(p)'
            IN  (a # b)
                  => /\ <<a, b>> \in LocMoves
                     /\ (b = "return") => (now <= pcExpires[p] /\ pcCloses'[p] = pcCloses[p])
                     /\ (b = "closed") => now > pcExpires[p] ]_vars

\* a PoolClient closed before its expiry is with its return task, token
\* pushed, about to enter the stock again, while another consumer holds
\* another PoolClient
C31_Witness ==
    \E p \in PCs, c \in Callers :
      /\ rt[p] = "push"
      /\ now <= pcExpires[p]
      /\ cpc[c] = "holding"
      /\ cClient[c] # p


\* C32: when newClient fails the response is 502 and neither the request
\* handler nor Close is called; when it returns a client, Close is called on
\* it exactly once on every path, after ServeHTTP's last statement, and when
\* WriteTo was called only after WriteTo has returned
C32_CloseOnce ==
    /\ (hpc = "returned" /\ fnRes.client = "none")
         => (oc.status = 502 /\ oc.nstatus = 1 /\ fnRes.handlers = 0 /\ fnRes.closes = 0)
    /\ (hpc = "returned" /\ fnRes.client = "ok")
         => (fnRes.closes = 1 /\ fnRes.handlers = 1)
    /\ (hpc # "returned") => fnRes.closes = 0
    /\ (fnRes.closes > 0 /\ fnRes.writeTo # "no") => fnRes.writeTo = "returned"
    /\ (fnRes.client = "nil") => fnRes.closes = 0

\* ServeHTTP has returned after a WriteTo that failed: 500, one Close
C32_Witness ==
    /\ hpc = "returned"
    /\ fnRes.client = "ok"
    /\ fnRes.writeTo = "returned"
    /\ oc.err # NoErr
    /\ oc.nread > 0
    /\ fnRes.closes = 1

\* ServeHTTP has returned with 502: the factory failed
C32_Witness502 ==
    /\ hpc = "returned"
    /\ fnRes.client = "none"
    /\ oc.status = 502

====
